---- MODULE Spec2Model ----
(***************************************************************************)
(* Razer HID transport (razer_common.py): send_and_receive_report          *)
(* ("exchange") and send_report_to_device ("sendOnly") run against a       *)
(* device descriptor and a HID layer that can fail at every call.          *)
(*                                                                         *)
(* Python lists are 0-indexed, TLA+ sequences 1-indexed: At(s, k) is the   *)
(* Python s[k].  Python None is NoPath for a path and <<>> for a response. *)
(***************************************************************************)
EXTENDS Integers, Sequences, FiniteSets, TLC

VARIABLES
    selected_device,    \* the descriptor dict: interfaces, preferred_interface_path, _diag_*
    hid,                \* the HID layer: the errors its calls can raise, the responses it can give
    pc,                 \* position of the running call
    command_desc,       \* argument of the running call
    preferred_path,     \* local: the cached path read at the start of the exchange
    interfaces,         \* local: the sorted copy of the interface list
    i,                  \* local: 1-based position of `iface` in the list being iterated
    attempt,            \* local: loop variable of `for attempt in range(2)`
    dev,                \* local: "None", or the state of the hid.device() object it refers to
    exc,                \* the exception being propagated to the except clauses, or NoExc
    response,           \* local: what get_feature_report returned
    attempted_ifaces,   \* local
    io_errors,          \* local
    open_failed_count,  \* local
    success,            \* local of send_report_to_device
    result,             \* return value of send_and_receive_report (<<>> is None)
    opens,              \* history: the paths passed to open_path, in call order
    open_handles,       \* history: handles opened whose close() has not been invoked yet
    tries,              \* history: one record per finished attempt of the exchange
    caller,             \* the frame of get_battery_level / get_charging_status above the exchange
    codec,              \* a pure function of the protocol layer, its arguments and its value
    app                 \* the RazerBatteryApp object of the menu-bar tray, its threads and its clock

vars == <<selected_device, hid, pc, command_desc, preferred_path, interfaces, i, attempt, dev, exc,
          response, attempted_ifaces, io_errors, open_failed_count, success, result,
          opens, open_handles, tries, caller, codec, app>>

(***************************************************************************)
(* Bounds of the model.                                                    *)
(***************************************************************************)
MaxIfaces == 2          \* interfaces per descriptor when the HID layer raises everything
MaxOrderIfaces == 3     \* interfaces per descriptor when every presentation order is drawn
MaxErrIfaces == 3       \* interfaces per descriptor when the error list has to overflow
MaxCalls == 2           \* transport calls made on one descriptor, one after the other
MaxCallIfaces == 2      \* interfaces per descriptor when calls follow one another
MaxArgLen == 82         \* length of the argument lists handed to construct_razer_report
MaxQueryIfaces == 1     \* interfaces per descriptor under the two queries
MaxEntries == 3         \* entries hid.enumerate returns to a scan

(***************************************************************************)
(* Program constants.                                                      *)
(***************************************************************************)
RAZER_STATUS_NEW == 0
RAZER_STATUS_BUSY == 1
RAZER_STATUS_SUCCESS == 2
RAZER_STATUS_FAILURE == 3
RAZER_STATUS_TIMEOUT == 4
RAZER_STATUS_NOT_SUPPORTED == 5
REPORT_LEN == 90
MaxAttempts == 2        \* range(2)
MaxIoErrors == 5        \* io_errors[-5:]
QueryAttempts == 2      \* range(2) of get_battery_level and get_charging_status
DefaultTransactionId == 31      \* device.get('transaction_id', 0x1F)
UnknownIface == -1      \* dev.get('interface_number', -1)
NoPath == 0             \* None, as a path
NoExc == [site |-> "none", type |-> "none", msg |-> ""]

At(s, k) == s[k + 1]
Get(d, key, default) == IF key \in DOMAIN d THEN d[key] ELSE default
Min(a, b) == IF a < b THEN a ELSE b
LastN(s, n) == SubSeq(s, Len(s) - Min(n, Len(s)) + 1, Len(s))
FirstN(s, n) == SubSeq(s, 1, Min(n, Len(s)))

(***************************************************************************)
(* Responses: tests/helpers.py make_razer_response builds a 91-byte        *)
(* response (report id + 90-byte report) with a correct checksum.          *)
(***************************************************************************)
Bit(x, k) == (x \div (2 ^ k)) % 2

\* XOR of the Python elements s[lo], ..., s[hi] (bytes): bit k of the result is the
\* parity of the number of elements that have bit k set
XorRange(s, lo, hi) ==
    LET x(k) == (Cardinality({j \in lo..hi : Bit(At(s, j), k) = 1}) % 2) * (2 ^ k)
    IN  x(0) + x(1) + x(2) + x(3) + x(4) + x(5) + x(6) + x(7)

make_razer_response(status, battery_byte) ==
    LET body == [k \in 1..(REPORT_LEN + 1) |->
                    CASE k - 1 = 1 -> status
                      [] k - 1 = 2 -> 31
                      [] k - 1 = 6 -> 2
                      [] k - 1 = 7 -> 7
                      [] k - 1 = 8 -> 128
                      [] k - 1 = 10 -> battery_byte
                      [] OTHER -> 0]
    IN  [body EXCEPT ![90] = XorRange(body, 3, 88)]

\* what the device (or a mock of it) can answer to get_feature_report
SuccessResponse == make_razer_response(RAZER_STATUS_SUCCESS, 200)
BusyResponse == make_razer_response(RAZER_STATUS_BUSY, 0)
ShortResponse == <<0, RAZER_STATUS_SUCCESS, 31>>
NoResponse == <<>>

Responses == {SuccessResponse, BusyResponse, ShortResponse, NoResponse}

(***************************************************************************)
(* validate_response.  A response shorter than 10 bytes and the four       *)
(* failure statuses are refused; the checksum comparison only logs.        *)
(***************************************************************************)
\* lines 955-961: the checksum over indices 3..88 differs from the byte at index 89
crc_mismatch(resp) == Len(resp) >= 90 /\ XorRange(resp, 3, 88) # At(resp, 89)

\* a checksum comparison that refuses the response
CrcCheckedFatal(resp) == IF crc_mismatch(resp) THEN FALSE ELSE TRUE

\* lines 955-966: a mismatch is logged as non-fatal, `return True` follows on both paths
CrcChecked(resp) == IF crc_mismatch(resp) THEN TRUE ELSE TRUE

\* a validation that takes the "new" status for a failure
validate_response_new_refused(resp) ==
    IF resp = <<>> \/ Len(resp) <= 9 THEN FALSE
    ELSE LET status == IF Len(resp) > 1 THEN At(resp, 1) ELSE 255 IN
         IF status = RAZER_STATUS_SUCCESS THEN CrcChecked(resp)
         ELSE IF status \in {RAZER_STATUS_BUSY, RAZER_STATUS_NEW} THEN FALSE
         ELSE IF status \in {RAZER_STATUS_FAILURE, RAZER_STATUS_TIMEOUT,
                             RAZER_STATUS_NOT_SUPPORTED} THEN FALSE
         ELSE CrcChecked(resp)

validate_response(resp) ==
    IF resp = <<>> \/ Len(resp) <= 9 THEN FALSE
    ELSE LET status == IF Len(resp) > 1 THEN At(resp, 1) ELSE 255 IN
         IF status = RAZER_STATUS_SUCCESS THEN CrcChecked(resp)
         ELSE IF status = RAZER_STATUS_BUSY THEN FALSE
         ELSE IF status \in {RAZER_STATUS_FAILURE, RAZER_STATUS_TIMEOUT,
                             RAZER_STATUS_NOT_SUPPORTED} THEN FALSE
         ELSE CrcChecked(resp)

(***************************************************************************)
(* construct_razer_report.  The value is the report, or the ValueError     *)
(* raised instead of it.                                                   *)
(***************************************************************************)
MaxArguments == 80      \* len(arguments) > 80

\* lines 814-819
calculate_crc(report_data) == XorRange(report_data, 2, Min(87, Len(report_data) - 1))

\* bytes(arguments) raises for an element outside range(0, 256)
ByteLike(arguments) == \A k \in 1..Len(arguments) : arguments[k] \in 0..255

Raised(msg) == [raised |-> "ValueError", msg |-> msg, report |-> <<>>]
Returned(report) == [raised |-> "none", msg |-> "", report |-> report]

\* lines 829-840: the report before the checksum is stored
ReportBody(transaction_id, command_class, command_id, data_size, arguments) ==
    LET arg_len == Min(Len(arguments), MaxArguments) IN
    [k \in 1..REPORT_LEN |->
        CASE k - 1 = 1 -> transaction_id % 256
          [] k - 1 = 5 -> data_size % 256
          [] k - 1 = 6 -> command_class % 256
          [] k - 1 = 7 -> command_id % 256
          [] k - 1 >= 8 /\ k - 1 < 8 + arg_len -> arguments[k - 8]
          [] OTHER -> 0]

\* a report whose checksum is taken before the arguments are placed
construct_razer_report_crc_first(transaction_id, command_class, command_id, data_size, arguments) ==
    IF Len(arguments) > MaxArguments THEN Raised("Arguments list too long (max 80 bytes)")
    ELSE IF ~ByteLike(arguments) THEN Raised("Arguments must be byte-like integers (0-255)")
    ELSE LET report == ReportBody(transaction_id, command_class, command_id, data_size,
                                  arguments)
             empty == ReportBody(transaction_id, command_class, command_id, data_size, <<>>)
         IN  Returned([report EXCEPT ![88 + 1] = calculate_crc(empty)])

\* a report builder that cuts a long argument list instead of refusing it
construct_razer_report_truncating(transaction_id, command_class, command_id, data_size, arguments) ==
    IF ~ByteLike(arguments) THEN Raised("Arguments must be byte-like integers (0-255)")
    ELSE LET report == ReportBody(transaction_id, command_class, command_id, data_size,
                                  arguments)
         IN  Returned([report EXCEPT ![88 + 1] = calculate_crc(report)])

\* lines 821-842
construct_razer_report(transaction_id, command_class, command_id, data_size, arguments) ==
    IF Len(arguments) > MaxArguments THEN Raised("Arguments list too long (max 80 bytes)")
    ELSE IF ~ByteLike(arguments) THEN Raised("Arguments must be byte-like integers (0-255)")
    ELSE LET report == ReportBody(transaction_id, command_class, command_id, data_size,
                                  arguments)
         IN  Returned([report EXCEPT ![88 + 1] = calculate_crc(report)])

(***************************************************************************)
(* The attempt order: list.sort (stable) on the three-part key.            *)
(***************************************************************************)
\* a key that forgets the cached path
SortKeyWithoutPreferred(iface, preferred) ==
    << 1,
       IF iface.interface_number = 0 THEN 0 ELSE 1,
       iface.interface_number >>

SortKey(iface, preferred) ==
    << IF preferred # NoPath /\ iface.path = preferred THEN 0 ELSE 1,
       IF iface.interface_number = 0 THEN 0 ELSE 1,
       iface.interface_number >>

\* tuple comparison, a < b
KeyLess(a, b) ==
    \/ a[1] < b[1]
    \/ a[1] = b[1] /\ a[2] < b[2]
    \/ a[1] = b[1] /\ a[2] = b[2] /\ a[3] < b[3]

RECURSIVE InsertStable(_, _, _)
\* x goes after every element whose key is not greater than its own
InsertStable(x, sorted, preferred) ==
    IF sorted = <<>> THEN <<x>>
    ELSE IF KeyLess(SortKey(x, preferred), SortKey(Head(sorted), preferred))
         THEN <<x>> \o sorted
         ELSE <<Head(sorted)>> \o InsertStable(x, Tail(sorted), preferred)

RECURSIVE SortInterfaces(_, _)
SortInterfaces(ifaces, preferred) ==
    IF ifaces = <<>> THEN <<>>
    ELSE InsertStable(ifaces[Len(ifaces)],
                      SortInterfaces(SubSeq(ifaces, 1, Len(ifaces) - 1), preferred),
                      preferred)

(***************************************************************************)
(* Descriptors, as scan_razer_devices builds them: every interface has a   *)
(* unique path and an interface number, -1 when the enumeration gave none. *)
(***************************************************************************)
IfaceNums == {UnknownIface, 0, 1, 2}

Descriptor(nums) ==
    [k \in 1..Len(nums) |-> [path |-> k, interface_number |-> nums[k]]]

\* interfaces presented as 2, 1, 0 (the fixture of the prioritisation test), cut to n
Unordered(n) == [k \in 1..n |-> n - k]

AllNums(maxn) == UNION { [1..n -> IfaceNums] : n \in 0..maxn }

Device(nums, preferred) ==
    IF preferred = NoPath
    THEN [interfaces |-> Descriptor(nums)]
    ELSE [interfaces |-> Descriptor(nums), preferred_interface_path |-> preferred]

(***************************************************************************)
(* The HID layer.  Each call of hid can raise; which errors a run can see  *)
(* is fixed per run, as a test fixes it when it builds its mock device.    *)
(***************************************************************************)
OpenFailed == [site |-> "open", type |-> "OSError", msg |-> "open failed"]
ReadError == [site |-> "read", type |-> "OSError", msg |-> "read error"]
Malformed == [site |-> "send", type |-> "ValueError", msg |-> "malformed"]
Unexpected == [site |-> "device", type |-> "Exception", msg |-> "unexpected"]
CloseFailed == [site |-> "close", type |-> "Exception", msg |-> "close failed too"]

AllRaises == {OpenFailed, ReadError, Malformed, Unexpected, CloseFailed}

\* `"open failed" in msg.lower()`, on the messages of the model
MentionsOpenFailed(msg) == msg \in {"open failed"}

Commands == {"get_battery_level"}

\* no query is running
NoCaller ==
    [fn |-> "none", calls |-> 0, report |-> <<>>, attempt |-> 0, log |-> <<>>,
     responses |-> <<>>, returned |-> FALSE, level |-> 0, charging |-> FALSE]

\* no pure function is being applied
NoCodec == [fn |-> "none"]

\* no tray application has been constructed
NoApp == [pc |-> "none"]

InitFrame ==
    /\ pc = "idle"
    /\ command_desc = ""
    /\ preferred_path = NoPath
    /\ interfaces = <<>>
    /\ i = 0
    /\ attempt = 0
    /\ dev = "None"
    /\ exc = NoExc
    /\ response = <<>>
    /\ attempted_ifaces = <<>>
    /\ io_errors = <<>>
    /\ open_failed_count = 0
    /\ success = FALSE
    /\ result = <<>>
    /\ opens = <<>>
    /\ open_handles = 0
    /\ tries = <<>>
    /\ caller = NoCaller

InitLocals == InitFrame /\ codec = NoCodec /\ app = NoApp

\* every error of the HID layer, on the fixture descriptor
Init ==
    /\ \E n \in 0..MaxIfaces : \E preferred \in {NoPath, 1} :
          selected_device = Device(Unordered(n), preferred)
    /\ hid = [raises |-> AllRaises, responses |-> Responses]
    /\ InitLocals

\* every presentation order and every cached path (n + 1 is a path no interface has); an
\* interface is left behind by failing to open twice, the exchange ends at a valid response
InitOrder ==
    /\ \E nums \in AllNums(MaxOrderIfaces) : \E preferred \in 0..(Len(nums) + 1) :
          selected_device = Device(nums, preferred)
    /\ hid = [raises |-> {OpenFailed}, responses |-> {SuccessResponse}]
    /\ InitLocals

\* enough interfaces for more than MaxIoErrors errors
InitErrors ==
    /\ \E n \in 0..MaxErrIfaces : selected_device = Device(Unordered(n), NoPath)
    /\ hid = [raises |-> {OpenFailed, ReadError}, responses |-> {SuccessResponse, BusyResponse}]
    /\ InitLocals

(***************************************************************************)
(* send_and_receive_report                                                 *)
(***************************************************************************)
Raise(site) ==
    \E e \in hid.raises : e.site = site /\ exc' = e /\ pc' = "except"

iface == interfaces[i]

\* a sort of the descriptor's own list
SortedInPlace(d, sorted) == [d EXCEPT !.interfaces = sorted]

\* line 975: list(...) makes a copy, which line 976 sorts; the descriptor keeps its list
SortedCopy(d, sorted) == d

\* lines 973-985: the entry of the exchange, with fresh locals and a fresh history
Exchange(cmd) ==
    /\ command_desc' = cmd
    /\ preferred_path' = Get(selected_device, "preferred_interface_path", NoPath)
    /\ interfaces' = SortInterfaces(selected_device.interfaces, preferred_path')
    /\ selected_device' = SortedCopy(selected_device, interfaces')
    /\ attempted_ifaces' = <<>>
    /\ io_errors' = <<>>
    /\ open_failed_count' = 0
    /\ i' = 0
    /\ attempt' = 0
    /\ dev' = "None"
    /\ exc' = NoExc
    /\ response' = <<>>
    /\ result' = <<>>
    /\ opens' = <<>>
    /\ tries' = <<>>
    /\ pc' = "for_iface"
    /\ UNCHANGED <<hid, codec, app, success, open_handles>>

\* a call of the exchange by a caller that is not one of the two queries
send_and_receive_report ==
    /\ pc = "idle"
    /\ caller.fn = "none"
    /\ \E cmd \in Commands : Exchange(cmd)
    /\ UNCHANGED caller

\* a trim that keeps the oldest messages
KeepFirstErrors(errors) == FirstN(errors, MaxIoErrors)

TrimErrors(errors) == LastN(errors, MaxIoErrors)

\* failure diagnostics with the success flag of the other branch
StampFailureAsOk ==
    ( "_diag_last_ok" :> TRUE
      @@ "_diag_last_command" :> command_desc
      @@ "_diag_last_attempted_interfaces" :> attempted_ifaces
      @@ "_diag_last_io_errors" :> TrimErrors(io_errors)
      @@ "_diag_last_open_failed_count" :> open_failed_count )
    @@ selected_device

\* lines 1049-1054
StampFailure ==
    ( "_diag_last_ok" :> FALSE
      @@ "_diag_last_command" :> command_desc
      @@ "_diag_last_attempted_interfaces" :> attempted_ifaces
      @@ "_diag_last_io_errors" :> TrimErrors(io_errors)
      @@ "_diag_last_open_failed_count" :> open_failed_count )
    @@ selected_device

\* success diagnostics that leave the success flag unset
StampSuccessNotOk ==
    ( "preferred_interface_path" :> iface.path
      @@ "_diag_last_ok" :> FALSE
      @@ "_diag_last_command" :> command_desc
      @@ "_diag_last_interface" :> iface.interface_number
      @@ "_diag_last_attempted_interfaces" :> attempted_ifaces
      @@ "_diag_last_io_errors" :> TrimErrors(io_errors)
      @@ "_diag_last_open_failed_count" :> open_failed_count )
    @@ selected_device

\* lines 1003-1009
StampSuccess ==
    ( "preferred_interface_path" :> iface.path
      @@ "_diag_last_ok" :> TRUE
      @@ "_diag_last_command" :> command_desc
      @@ "_diag_last_interface" :> iface.interface_number
      @@ "_diag_last_attempted_interfaces" :> attempted_ifaces
      @@ "_diag_last_io_errors" :> TrimErrors(io_errors)
      @@ "_diag_last_open_failed_count" :> open_failed_count )
    @@ selected_device

\* lines 987-991 and 1049-1054: the head of `for iface in interfaces`
ForIface ==
    /\ pc = "for_iface"
    /\ IF i < Len(interfaces)
       THEN /\ i' = i + 1
            /\ attempted_ifaces' = Append(attempted_ifaces, interfaces[i + 1].interface_number)
            /\ attempt' = 0
            /\ pc' = "try"
            /\ UNCHANGED <<selected_device, result>>
       ELSE /\ selected_device' = StampFailure
            /\ result' = <<>>
            /\ pc' = "done"
            /\ UNCHANGED <<i, attempted_ifaces, attempt>>
    /\ UNCHANGED <<hid, caller, codec, app,
                   preferred_path, command_desc, interfaces, dev, exc, response, io_errors,
                   open_failed_count, success, opens, open_handles, tries>>

\* lines 992-994: dev = None; dev = hid.device()
HidDevice ==
    /\ pc = "try"
    /\ \/ dev' = "created" /\ pc' = "open_path" /\ UNCHANGED exc
       \/ dev' = "None" /\ Raise("device")
    /\ UNCHANGED <<selected_device, hid, caller, codec, app,
                   preferred_path, command_desc, interfaces, i, attempt,
                   response, attempted_ifaces, io_errors, open_failed_count, success,
                   result, opens, open_handles, tries>>

\* line 995: dev.open_path(path)
OpenPath ==
    /\ pc = "open_path"
    /\ opens' = Append(opens, iface.path)
    /\ \/ dev' = "open" /\ open_handles' = open_handles + 1 /\ pc' = "send" /\ UNCHANGED exc
       \/ Raise("open") /\ UNCHANGED <<dev, open_handles>>
    /\ UNCHANGED <<selected_device, hid, caller, codec, app,
                   preferred_path, command_desc, interfaces, i, attempt,
                   response, attempted_ifaces, io_errors, open_failed_count, success,
                   result, tries>>

\* lines 996-997: dev.send_feature_report(report_with_id)
SendFeatureReport ==
    /\ pc = "send"
    /\ \/ pc' = "read" /\ UNCHANGED exc
       \/ Raise("send")
    /\ UNCHANGED <<selected_device, hid, caller, codec, app,
                   preferred_path, command_desc, interfaces, i, attempt, dev,
                   response, attempted_ifaces, io_errors, open_failed_count, success,
                   result, opens, open_handles, tries>>

\* lines 998-999: response = dev.get_feature_report(0x00, REPORT_LEN + 1)
GetFeatureReport ==
    /\ pc = "read"
    /\ \/ \E r \in hid.responses : response' = r /\ pc' = "close" /\ UNCHANGED exc
       \/ Raise("read") /\ UNCHANGED response
    /\ UNCHANGED <<selected_device, hid, caller, codec, app,
                   preferred_path, command_desc, interfaces, i, attempt, dev,
                   attempted_ifaces, io_errors, open_failed_count, success, result, opens,
                   open_handles, tries>>

\* the handle counts as released once its close() has been invoked
Released(d, n) == IF d = "open" THEN n - 1 ELSE n

\* lines 1000-1001: dev.close(); dev = None -- inside the try block
Close ==
    /\ pc = "close"
    /\ open_handles' = Released(dev, open_handles)
    /\ \/ dev' = "None" /\ pc' = "validate" /\ UNCHANGED exc
       \/ dev' = "closed" /\ Raise("close")
    /\ UNCHANGED <<selected_device, hid, caller, codec, app,
                   preferred_path, command_desc, interfaces, i, attempt,
                   response, attempted_ifaces, io_errors, open_failed_count, success,
                   result, opens, tries>>

\* what the log lines of an attempt tell: where it ran, how it ended, what was raised
\* where, and whether the 0.2 s backoff sleep followed
Try(outcome, site, msg, backoff) ==
    [path |-> iface.path, attempt |-> attempt, outcome |-> outcome, site |-> site,
     msg |-> msg, backoff |-> backoff]

\* lines 1002-1012
Validate ==
    /\ pc = "validate"
    /\ IF validate_response(response)
       THEN /\ selected_device' = StampSuccess
            /\ result' = response
            /\ tries' = Append(tries, Try("valid", "none", "", FALSE))
            /\ pc' = "done"
       ELSE /\ tries' = Append(tries, Try("invalid", "none", "", FALSE))
            /\ pc' = "for_iface"
            /\ UNCHANGED <<selected_device, result>>
    /\ UNCHANGED <<hid, caller, codec, app,
                   preferred_path, command_desc, interfaces, i, attempt, dev, exc, response,
                   attempted_ifaces, io_errors, open_failed_count, success, opens,
                   open_handles>>

\* a handler that forgets the handle
CloseInHandlerSkipped == UNCHANGED <<dev, open_handles>>

\* `if dev: try: dev.close() except Exception: pass` -- close() may raise, nothing is kept
CloseInHandler ==
    IF dev # "None"
    THEN dev' = "closed" /\ open_handles' = Released(dev, open_handles)
    ELSE UNCHANGED <<dev, open_handles>>

\* a `continue` that gives up the interface at once
ContinueWithoutRetry == pc' = "for_iface" /\ UNCHANGED attempt

\* `continue` in `for attempt in range(2)`
Continue ==
    IF attempt + 1 < MaxAttempts
    THEN attempt' = attempt + 1 /\ pc' = "try"
    ELSE pc' = "for_iface" /\ UNCHANGED attempt

\* `break`
Break == pc' = "for_iface" /\ UNCHANGED attempt

\* an I/O error counted as an open failure whatever its text
ExceptOSErrorCountsAll ==
    /\ io_errors' = Append(io_errors, exc.msg)
    /\ open_failed_count' = open_failed_count + 1
    /\ CloseInHandler
    /\ tries' = Append(tries, Try(exc.type, exc.site, exc.msg, attempt = 0))
    /\ Continue

\* lines 1013-1027
ExceptOSError ==
    /\ io_errors' = Append(io_errors, exc.msg)
    /\ open_failed_count' =
          IF MentionsOpenFailed(exc.msg) THEN open_failed_count + 1 ELSE open_failed_count
    /\ CloseInHandler
    /\ tries' = Append(tries, Try(exc.type, exc.site, exc.msg, attempt = 0))
    /\ Continue

\* a ValueError handled like the other errors: `continue` instead of `break`
ExceptValueErrorRetried ==
    /\ io_errors' = Append(io_errors, exc.msg)
    /\ UNCHANGED open_failed_count
    /\ CloseInHandler
    /\ tries' = Append(tries, Try(exc.type, exc.site, exc.msg, FALSE))
    /\ Continue

\* lines 1028-1036
ExceptValueError ==
    /\ io_errors' = Append(io_errors, exc.msg)
    /\ UNCHANGED open_failed_count
    /\ CloseInHandler
    /\ tries' = Append(tries, Try(exc.type, exc.site, exc.msg, FALSE))
    /\ Break

\* no `except Exception` clause: the error leaves the exchange
ExceptExceptionAbsent ==
    /\ UNCHANGED <<io_errors, open_failed_count, dev, open_handles, attempt>>
    /\ tries' = Append(tries, Try(exc.type, exc.site, exc.msg, FALSE))
    /\ pc' = "raised"

\* lines 1037-1048
ExceptException ==
    /\ io_errors' = Append(io_errors, exc.msg)
    /\ UNCHANGED open_failed_count
    /\ CloseInHandler
    /\ tries' = Append(tries, Try(exc.type, exc.site, exc.msg, attempt = 0))
    /\ Continue

Except ==
    /\ pc = "except"
    /\ CASE exc.type = "OSError" -> ExceptOSError
         [] exc.type = "ValueError" -> ExceptValueError
         [] OTHER -> ExceptException
    /\ exc' = NoExc
    /\ UNCHANGED <<selected_device, hid, caller, codec, app,
                   preferred_path, command_desc, interfaces, i, response,
                   attempted_ifaces, success, result, opens>>

(***************************************************************************)
(* send_report_to_device: every interface once, in the presented order.    *)
(***************************************************************************)
so_iface == selected_device.interfaces[i]

\* what the log tells of the attempt on so_iface: a full write, a partial one, or the error
SoTry(outcome, site, msg) ==
    [path |-> so_iface.path, attempt |-> 0, outcome |-> outcome, site |-> site, msg |-> msg,
     backoff |-> FALSE]

\* any error of the HID layer at this call: both except clauses only log
SoRaise(site) ==
    \E e \in hid.raises :
       /\ e.site = site
       /\ tries' = Append(tries, SoTry(e.type, e.site, e.msg))
       /\ pc' = "so_finally"

\* lines 894-895
send_report_to_device ==
    /\ pc = "idle"
    /\ caller.fn = "none"
    /\ \E cmd \in Commands : command_desc' = cmd
    /\ success' = FALSE
    /\ i' = 0
    /\ opens' = <<>>
    /\ tries' = <<>>
    /\ pc' = "so_for"
    /\ UNCHANGED <<selected_device, hid, caller, codec, app,
                   preferred_path, interfaces, attempt, dev, exc, response,
                   attempted_ifaces, io_errors, open_failed_count, result, open_handles>>

\* lines 896-898 and 919: the head of `for iface in ...`, and `return success`
SoForIface ==
    /\ pc = "so_for"
    /\ IF i < Len(selected_device.interfaces)
       THEN i' = i + 1 /\ dev' = "None" /\ pc' = "so_try"
       ELSE pc' = "so_done" /\ UNCHANGED <<i, dev>>
    /\ UNCHANGED <<selected_device, hid, caller, codec, app,
                   preferred_path, command_desc, interfaces, attempt, exc,
                   response, attempted_ifaces, io_errors, open_failed_count, success,
                   result, opens, open_handles, tries>>

\* line 900
SoHidDevice ==
    /\ pc = "so_try"
    /\ \/ dev' = "created" /\ pc' = "so_open" /\ UNCHANGED tries
       \/ SoRaise("device") /\ UNCHANGED dev
    /\ UNCHANGED <<selected_device, hid, caller, codec, app,
                   preferred_path, command_desc, interfaces, i, attempt, exc,
                   response, attempted_ifaces, io_errors, open_failed_count, success,
                   result, opens, open_handles>>

\* line 901
SoOpenPath ==
    /\ pc = "so_open"
    /\ opens' = Append(opens, so_iface.path)
    /\ \/ /\ dev' = "open"
          /\ open_handles' = open_handles + 1
          /\ pc' = "so_send"
          /\ UNCHANGED tries
       \/ SoRaise("open") /\ UNCHANGED <<dev, open_handles>>
    /\ UNCHANGED <<selected_device, hid, caller, codec, app,
                   preferred_path, command_desc, interfaces, i, attempt, exc,
                   response, attempted_ifaces, io_errors, open_failed_count, success,
                   result>>

\* the prefixed report: b'\x00' + report
PrefixedLen == REPORT_LEN + 1

\* a send whose result is that of the last write only
SoSendFeatureReportLastWins ==
    /\ pc = "so_send"
    /\ \/ \E bytes_written \in {PrefixedLen, REPORT_LEN} :
             /\ success' = (bytes_written = PrefixedLen)
             /\ tries' = Append(tries, SoTry(IF bytes_written = PrefixedLen
                                             THEN "full" ELSE "partial", "none", ""))
             /\ pc' = "so_finally"
       \/ SoRaise("send") /\ UNCHANGED success
    /\ UNCHANGED <<selected_device, hid, caller, codec, app,
                   preferred_path, command_desc, interfaces, i, attempt, dev,
                   exc, response, attempted_ifaces, io_errors, open_failed_count, result,
                   opens, open_handles>>

\* lines 902-908: bytes_written is the full length, or less
SoSendFeatureReport ==
    /\ pc = "so_send"
    /\ \/ \E bytes_written \in {PrefixedLen, REPORT_LEN} :
             /\ success' = IF bytes_written = PrefixedLen THEN TRUE ELSE success
             /\ tries' = Append(tries, SoTry(IF bytes_written = PrefixedLen
                                             THEN "full" ELSE "partial", "none", ""))
             /\ pc' = "so_finally"
       \/ SoRaise("send") /\ UNCHANGED success
    /\ UNCHANGED <<selected_device, hid, caller, codec, app,
                   preferred_path, command_desc, interfaces, i, attempt, dev,
                   exc, response, attempted_ifaces, io_errors, open_failed_count, result,
                   opens, open_handles>>

\* lines 913-918
SoFinally ==
    /\ pc = "so_finally"
    /\ CloseInHandler
    /\ pc' = "so_for"
    /\ UNCHANGED <<selected_device, hid, caller, codec, app,
                   preferred_path, command_desc, interfaces, i, attempt, exc,
                   response, attempted_ifaces, io_errors, open_failed_count, success,
                   result, opens, tries>>

Next ==
    \/ send_and_receive_report
    \/ ForIface
    \/ HidDevice
    \/ OpenPath
    \/ SendFeatureReport
    \/ GetFeatureReport
    \/ Close
    \/ Validate
    \/ Except
    \/ send_report_to_device
    \/ SoForIface
    \/ SoHidDevice
    \/ SoOpenPath
    \/ SoSendFeatureReport
    \/ SoFinally

Spec == Init /\ [][Next]_vars
\* the exchange alone
NextExchange ==
    \/ send_and_receive_report
    \/ ForIface
    \/ HidDevice
    \/ OpenPath
    \/ SendFeatureReport
    \/ GetFeatureReport
    \/ Close
    \/ Validate
    \/ Except

SpecOrder == InitOrder /\ [][NextExchange]_vars
SpecErrors == InitErrors /\ [][Next]_vars

(***************************************************************************)
(* Vocabulary of the properties.                                           *)
(***************************************************************************)
AttemptPcs == {"try", "open_path", "send", "read", "close", "validate", "except"}
ExchangePcs == AttemptPcs \cup {"for_iface", "done"}

Retryable(t) == t.outcome \in {"OSError", "Exception"}
NotRetried(t) == t.outcome \in {"invalid", "ValueError"}
Failed(t) == t.outcome \in {"OSError", "ValueError", "Exception"}

Count(seq, x) == Cardinality({k \in 1..Len(seq) : seq[k] = x})
Paths == {selected_device.interfaces[k].path : k \in 1..Len(selected_device.interfaces)}

\* position of a path in the attempt order
PosOf(path) == CHOOSE k \in 1..Len(interfaces) : interfaces[k].path = path

\* the attempt that follows tries[k] is on the same interface, as its second try
RetriedAfter(k) ==
    IF k < Len(tries)
    THEN tries[k + 1].path = tries[k].path /\ tries[k + 1].attempt = 1
    ELSE pc \in AttemptPcs /\ iface.path = tries[k].path /\ attempt = 1

\* what follows tries[k] is the first try of the next interface in the attempt order, or
\* the end of the exchange when there is none
MovedOnAfter(k) ==
    LET next == PosOf(tries[k].path) + 1 IN
    IF k < Len(tries)
    THEN tries[k + 1].path = interfaces[next].path /\ tries[k + 1].attempt = 0
    ELSE \/ pc = "for_iface" /\ i = next - 1
         \/ pc \in AttemptPcs /\ i = next /\ attempt = 0
         \/ pc = "done" /\ next = Len(interfaces) + 1 /\ result = <<>>

\* the open_path calls made by the attempts on the interface of tries[k], up to tries[k]
\* (an attempt that failed in hid.device() made none)
OpensWithin(k) ==
    Cardinality({j \in 1..k : tries[j].path = tries[k].path /\ tries[j].site # "device"})

(***************************************************************************)
(* C1: in an exchange, an attempt that fails with an I/O error or with an  *)
(* unexpected error is followed, after the backoff wait, by exactly one    *)
(* more attempt on the same interface; after the second consecutive        *)
(* failure the next interface is tried with no further wait.  No interface *)
(* gets more than 2 open attempts, an exchange over N interfaces makes at  *)
(* most 2N of them, and the exchange cannot get stuck before it returns.   *)
(***************************************************************************)
C1_RetryOnceThenNextInterface ==
    pc \in ExchangePcs =>
      /\ \A k \in 1..Len(tries) :
            Retryable(tries[k]) =>
               IF tries[k].attempt = 0
               THEN tries[k].backoff /\ RetriedAfter(k)
               ELSE /\ ~tries[k].backoff
                    /\ k > 1 /\ tries[k - 1].path = tries[k].path /\ Retryable(tries[k - 1])
                    /\ MovedOnAfter(k)
      /\ \A p \in Paths : Count(opens, p) <= MaxAttempts
      /\ Len(opens) <= MaxAttempts * Len(selected_device.interfaces)
      /\ Len(tries) <= MaxAttempts * Len(selected_device.interfaces)
      /\ pc # "done" => ENABLED Next

\* an unexpected error, then an I/O error on the retry, then the next interface
C1_Witness ==
    /\ pc = "done"
    /\ Len(tries) >= 3
    /\ tries[1].outcome = "Exception" /\ tries[1].attempt = 0
    /\ tries[2].outcome = "OSError" /\ tries[2].attempt = 1 /\ tries[2].path = tries[1].path
    /\ tries[3].path # tries[1].path

(***************************************************************************)
(* C2 as stated: an interface whose response failed validation, or whose   *)
(* attempt raised ValueError, has received exactly one open attempt in the *)
(* exchange, and the next interface is tried next.                         *)
(***************************************************************************)
C2_ExactlyOneOpen ==
    pc \in ExchangePcs =>
      \A k \in 1..Len(tries) :
         NotRetried(tries[k]) => Count(opens, tries[k].path) = 1 /\ MovedOnAfter(k)

(***************************************************************************)
(* C2 amended: after an attempt whose response failed validation, or that  *)
(* raised ValueError, no further attempt and no further open is made on    *)
(* that interface, which has then had one open attempt, or two when its    *)
(* first try failed with a retryable error; the next interface is tried    *)
(* next.                                                                   *)
(***************************************************************************)
C2_NeverRetriedAfterwards ==
    pc \in ExchangePcs =>
      \A k \in 1..Len(tries) :
         NotRetried(tries[k]) =>
            /\ \A j \in (k + 1)..Len(tries) : tries[j].path # tries[k].path
            /\ Count(opens, tries[k].path) = OpensWithin(k)
            /\ OpensWithin(k) \in 1..MaxAttempts
            /\ tries[k].attempt = 1 => Retryable(tries[k - 1])
            /\ MovedOnAfter(k)

\* a malformed-argument error on the first interface, an invalid response on the second
C2_Witness ==
    /\ pc = "done"
    /\ Len(tries) = 2
    /\ tries[1].outcome = "ValueError"
    /\ tries[2].outcome = "invalid"
    /\ tries[2].path # tries[1].path

(***************************************************************************)
(* C3: once an attempt has read a response that passes validation (and the *)
(* close that follows the read is over), the exchange has returned that    *)
(* response, the preferred path is the path of the interface that gave it, *)
(* and the last open of the exchange is the one of that attempt.           *)
(***************************************************************************)
C3_ValidResponseReturned ==
    (pc \in ExchangePcs \ {"close", "validate"} /\ validate_response(response)) =>
       /\ pc = "done"
       /\ result = response
       /\ selected_device.preferred_interface_path = iface.path
       /\ opens[Len(opens)] = iface.path

(***************************************************************************)
(* The attempt order, read off the open_path calls.                        *)
(***************************************************************************)
NumOf(path) ==
    LET k == CHOOSE k \in 1..Len(selected_device.interfaces) :
                selected_device.interfaces[k].path = path
    IN  selected_device.interfaces[k].interface_number

IsPreferred(path) == preferred_path # NoPath /\ path = preferred_path
HasPreferred == \E p \in Paths : IsPreferred(p)
OpenedBefore(p, k) == \E j \in 1..(k - 1) : opens[j] = p
\* neither the preferred interface nor interface number 0
IsOther(path) == ~IsPreferred(path) /\ NumOf(path) # 0

(***************************************************************************)
(* C4: the first open of an exchange is on the interface whose path is the *)
(* cached preferred path whenever the descriptor has such an interface,    *)
(* whatever the presented order; every interface number 0 that is not the  *)
(* preferred one is opened before any other remaining interface; with no   *)
(* preferred match, interface number 0 is opened first if present.         *)
(***************************************************************************)
C4_PreferredThenZeroFirst ==
    (pc \in ExchangePcs /\ opens # <<>>) =>
       /\ HasPreferred => opens[1] = preferred_path
       /\ \A k \in 1..Len(opens) :
             IsOther(opens[k]) =>
                \A p \in Paths : (NumOf(p) = 0 /\ ~IsPreferred(p)) => OpenedBefore(p, k)
       /\ (~HasPreferred /\ \E p \in Paths : NumOf(p) = 0) => NumOf(opens[1]) = 0

\* three interfaces presented as (other, 0, preferred), all three opened: preferred
\* first, then number 0, then the other one
C4_Witness ==
    /\ pc = "done"
    /\ Len(selected_device.interfaces) = 3
    /\ preferred_path = selected_device.interfaces[3].path
    /\ selected_device.interfaces[3].interface_number = 2
    /\ selected_device.interfaces[2].interface_number = 0
    /\ selected_device.interfaces[1].interface_number = 1
    /\ \A p \in Paths : Count(opens, p) >= 1
    /\ opens[1] = 3 /\ opens[Len(opens)] = 1

(***************************************************************************)
(* C5: the interfaces that are neither the preferred one nor number 0 are  *)
(* opened in ascending interface-number order, and one whose number is     *)
(* unknown (-1) is opened after every one with a known number.             *)
(***************************************************************************)
C5_AscendingUnknownLast ==
    pc \in ExchangePcs =>
       \A j, k \in 1..Len(opens) :
          (j < k /\ opens[j] # opens[k] /\ IsOther(opens[j]) /\ IsOther(opens[k])) =>
             /\ (NumOf(opens[j]) # UnknownIface /\ NumOf(opens[k]) # UnknownIface)
                   => NumOf(opens[j]) <= NumOf(opens[k])
             /\ ~(NumOf(opens[j]) = UnknownIface /\ NumOf(opens[k]) # UnknownIface)

(***************************************************************************)
(* C7: a failure of close() is swallowed on every exit path of an attempt, *)
(* the one after a successful read included: it is never recorded in the   *)
(* I/O error list and no attempt ends as failed because of it.             *)
(***************************************************************************)
C7_CloseFailureSwallowed ==
    pc \in ExchangePcs =>
       /\ \A k \in 1..Len(io_errors) : io_errors[k] # CloseFailed.msg
       /\ \A k \in 1..Len(tries) : ~(Failed(tries[k]) /\ tries[k].site = "close")

(***************************************************************************)
(* C6: within exchange and sendOnly at most one handle is open at any      *)
(* moment, close() has been invoked on every opened handle before the next *)
(* open attempt begins, and no handle opened by the call is unclosed when  *)
(* an attempt is over or the call returns, whatever ended the attempt.     *)
(***************************************************************************)
C6_HandleAlwaysReleased ==
    /\ open_handles \in {0, 1}
    /\ open_handles = 1 <=> dev = "open"
    /\ pc \in {"try", "open_path", "so_try", "so_open"} => open_handles = 0
    /\ pc \in {"for_iface", "so_for"} => open_handles = 0
    /\ pc \in {"done", "so_done"} => open_handles = 0

\* one exchange that left an attempt by an I/O error after the open, by a
\* malformed-argument error, by a failing close and by a valid response
C6_Witness ==
    /\ pc = "done"
    /\ Len(tries) = 4
    /\ tries[1].outcome = "OSError" /\ tries[1].site = "read"
    /\ tries[2].outcome = "ValueError"
    /\ tries[3].outcome = "Exception" /\ tries[3].site = "close"
    /\ tries[4].outcome = "valid"

(***************************************************************************)
(* What an exchange went through, read off its attempts.                   *)
(***************************************************************************)
\* the messages of the errors that ended an attempt, in order of occurrence
FailedMsgs ==
    LET failed == SelectSeq(tries, Failed)
    IN  [k \in 1..Len(failed) |-> failed[k].msg]

\* the attempts that ended in an I/O error whose text tells of an open failure
OpenFailureTries ==
    {k \in 1..Len(tries) : tries[k].outcome = "OSError" /\ MentionsOpenFailed(tries[k].msg)}

\* the interfaces that failed at the open step
OpenFailureIfaces ==
    {tries[k].path : k \in {j \in 1..Len(tries) : Failed(tries[j]) /\ tries[j].site = "open"}}

AttemptOrderNumbers == [k \in 1..Len(interfaces) |-> interfaces[k].interface_number]

(***************************************************************************)
(* C8: when every attempt on every interface ended without a validated     *)
(* response (also when there is no interface), the exchange returns none   *)
(* and the descriptor carries lastOk = false, the command label, the       *)
(* interface numbers of all interfaces in attempt order (one per           *)
(* interface), the trimmed error list and the open-failure count.          *)
(***************************************************************************)
C8_ExhaustionStamped ==
    (pc = "done" /\ \A k \in 1..Len(tries) : tries[k].outcome # "valid") =>
       /\ result = <<>>
       /\ selected_device["_diag_last_ok"] = FALSE
       /\ selected_device["_diag_last_command"] = command_desc
       /\ selected_device["_diag_last_attempted_interfaces"] = AttemptOrderNumbers
       /\ Len(selected_device["_diag_last_attempted_interfaces"])
             = Len(selected_device.interfaces)
       /\ selected_device["_diag_last_io_errors"] = LastN(FailedMsgs, MaxIoErrors)
       /\ selected_device["_diag_last_open_failed_count"] = Cardinality(OpenFailureTries)

\* two interfaces, each tried twice, nothing valid
C8_Witness ==
    /\ pc = "done"
    /\ result = <<>>
    /\ Len(tries) = 4
    /\ Len(selected_device["_diag_last_attempted_interfaces"]) = 2
    /\ selected_device["_diag_last_open_failed_count"] >= 1

(***************************************************************************)
(* C9: after any exchange the recorded I/O error list has at most 5        *)
(* entries: the most recent error messages of that exchange, in order of   *)
(* occurrence (all of them when fewer than 5 occurred).                    *)
(***************************************************************************)
C9_LastFiveErrors ==
    pc = "done" =>
       /\ Len(selected_device["_diag_last_io_errors"]) <= MaxIoErrors
       /\ selected_device["_diag_last_io_errors"] = LastN(FailedMsgs, MaxIoErrors)
       /\ Len(FailedMsgs) <= MaxIoErrors => selected_device["_diag_last_io_errors"] = FailedMsgs

\* six errors, the first of which differs from the sixth
C9_Witness ==
    /\ pc = "done"
    /\ Len(FailedMsgs) = 6
    /\ FailedMsgs[1] = ReadError.msg
    /\ FailedMsgs[6] = OpenFailed.msg

(***************************************************************************)
(* C10 as stated: after any exchange the open-failure count is the number  *)
(* of interfaces that failed at the open step, hence never greater than    *)
(* the number of interfaces in the attempted-interface list.               *)
(***************************************************************************)
C10_CountsInterfaces ==
    pc = "done" =>
       /\ selected_device["_diag_last_open_failed_count"] = Cardinality(OpenFailureIfaces)
       /\ selected_device["_diag_last_open_failed_count"]
             <= Len(selected_device["_diag_last_attempted_interfaces"])

(***************************************************************************)
(* C10 amended: after any exchange the open-failure count is the number of *)
(* attempts (not interfaces) of that exchange that ended in an I/O error   *)
(* whose text tells of an open failure, so an interface that fails to open *)
(* on both tries counts twice; it is never greater than twice the number   *)
(* of interfaces in the attempted-interface list.                          *)
(***************************************************************************)
C10_CountsAttempts ==
    pc = "done" =>
       /\ selected_device["_diag_last_open_failed_count"] = Cardinality(OpenFailureTries)
       /\ selected_device["_diag_last_open_failed_count"]
             <= MaxAttempts * Len(selected_device["_diag_last_attempted_interfaces"])

\* one interface failed to open twice, the other once
C10_Witness ==
    /\ pc = "done"
    /\ Len(selected_device["_diag_last_attempted_interfaces"]) = 2
    /\ selected_device["_diag_last_open_failed_count"] = 3
    /\ Cardinality(OpenFailureIfaces) = 2

(***************************************************************************)
(* Calls that follow one another on the same descriptor, as the polls of   *)
(* the tray make them.                                                     *)
(***************************************************************************)
\* the transport call has returned and its caller makes the next one
Return ==
    /\ pc \in {"done", "so_done"}
    /\ caller.fn = "none"
    /\ caller.calls + 1 < MaxCalls
    /\ caller' = [caller EXCEPT !.calls = @ + 1]
    /\ pc' = "idle"
    /\ UNCHANGED <<selected_device, hid, codec, app, command_desc, preferred_path, interfaces, i,
                   attempt, dev, exc, response, attempted_ifaces, io_errors,
                   open_failed_count, success, result, opens, open_handles, tries>>

InitCalls ==
    /\ \E n \in 0..MaxCallIfaces : selected_device = Device(Unordered(n), NoPath)
    /\ hid = [raises |-> {OpenFailed}, responses |-> {SuccessResponse, BusyResponse}]
    /\ InitLocals

NextCalls == Next \/ Return

SpecCalls == InitCalls /\ [][NextCalls]_vars

\* the session diagnostic fields a descriptor carries
DiagFields == DOMAIN selected_device \ {"interfaces", "preferred_interface_path"}

\* what a diagnostic field says when it describes the exchange that has just returned
DescribesThisCall(field) ==
    CASE field = "_diag_last_ok" -> selected_device[field] = (result # <<>>)
      [] field = "_diag_last_command" -> selected_device[field] = command_desc
      [] field = "_diag_last_interface" ->
            /\ result # <<>>
            /\ selected_device[field] = NumOf(tries[Len(tries)].path)
      [] field = "_diag_last_attempted_interfaces" ->
            selected_device[field] = FirstN(AttemptOrderNumbers, Len(attempted_ifaces))
      [] field = "_diag_last_io_errors" ->
            selected_device[field] = LastN(FailedMsgs, MaxIoErrors)
      [] field = "_diag_last_open_failed_count" ->
            selected_device[field] = Cardinality(OpenFailureTries)

(***************************************************************************)
(* C11 as stated: after an exchange call, whether it succeeded or failed,  *)
(* every session diagnostic field of the descriptor (success flag, command *)
(* label, most recent interface actually used, attempted interface         *)
(* numbers, recent I/O errors, open-failure count) describes that call     *)
(* only; none still holds a value written by an earlier call.              *)
(***************************************************************************)
C11_FieldsDescribeLastCall ==
    pc = "done" => \A field \in DiagFields : DescribesThisCall(field)

(***************************************************************************)
(* The pure functions of the protocol layer, applied to drawn arguments.   *)
(***************************************************************************)
Ramp(n) == [k \in 1..n |-> (k - 1) % 256]
Ones(n) == [k \in 1..n |-> 255]

\* argument lists of every length up to MaxArgLen, and lists with one element that is
\* not a byte
ArgLists ==
    UNION { {Ramp(n), Ones(n)} : n \in 0..MaxArgLen }
    \cup { [Ramp(n) EXCEPT ![n] = v] : n \in {1, 2, MaxArguments, MaxArgLen}, v \in {256, -1} }

\* the header bytes the callers of this repository pass, and the ends of the byte range
TransactionIds == {0, 31, 63, 255}
CommandClasses == {7, 15}
CommandIds == {2, 128, 132}
DataSizes == {2, 9}

\* a response cut to len bytes, with the status at index 1 and a right or wrong checksum
Resp(len, status, crc_ok) ==
    LET full == make_razer_response(status, 200)
        sent == IF crc_ok THEN full ELSE [full EXCEPT ![89 + 1] = (@ + 1) % 256]
    IN  FirstN(sent, len)

\* the same, with the byte at index 10 (one the checksum covers) given
RespWith(len, status, covered, crc_ok) ==
    LET full == make_razer_response(status, covered)
        sent == IF crc_ok THEN full ELSE [full EXCEPT ![89 + 1] = (@ + 1) % 256]
    IN  FirstN(sent, len)

ResponseLengths == {0, 1, 2, 9, 10, 11, 89, 90, 91}
Statuses == 0..6 \cup {255}

InitCodec ==
    /\ selected_device = Device(<<>>, NoPath)
    /\ hid = [raises |-> {}, responses |-> {}]
    /\ InitFrame
    /\ app = NoApp
    /\ \/ \E t \in TransactionIds, c \in CommandClasses, id \in CommandIds, size \in DataSizes,
             arguments \in ArgLists :
             codec = [fn |-> "construct_razer_report", transaction_id |-> t,
                      command_class |-> c, command_id |-> id, data_size |-> size,
                      arguments |-> arguments, done |-> FALSE, value |-> Returned(<<>>)]
       \/ \E len \in ResponseLengths, status \in Statuses, crc_ok \in BOOLEAN :
             codec = [fn |-> "validate_response", response |-> Resp(len, status, crc_ok),
                      done |-> FALSE, value |-> FALSE]
       \/ \E len \in ResponseLengths, status \in Statuses, covered \in {200, 7},
             crc_ok \in BOOLEAN :
             codec = [fn |-> "validate_response twice",
                      response |-> Resp(len, status, TRUE),
                      twin |-> RespWith(len, status, covered, crc_ok),
                      done |-> FALSE, value |-> FALSE, twin_value |-> FALSE]

Frame ==
    UNCHANGED <<selected_device, hid, pc, command_desc, preferred_path, interfaces, i, attempt,
                dev, exc, response, attempted_ifaces, io_errors, open_failed_count, success,
                result, opens, open_handles, tries, caller, app>>

ConstructReport ==
    /\ codec.fn = "construct_razer_report"
    /\ ~codec.done
    /\ codec' = [codec EXCEPT
                   !.done = TRUE,
                   !.value = construct_razer_report(codec.transaction_id, codec.command_class,
                                                    codec.command_id, codec.data_size,
                                                    codec.arguments)]
    /\ Frame

ValidateResponse ==
    /\ codec.fn = "validate_response"
    /\ ~codec.done
    /\ codec' = [codec EXCEPT !.done = TRUE, !.value = validate_response(codec.response)]
    /\ Frame

\* validate_response on a response and on one of the same length and status
ValidateTwins ==
    /\ codec.fn = "validate_response twice"
    /\ ~codec.done
    /\ codec' = [codec EXCEPT !.done = TRUE, !.value = validate_response(codec.response),
                              !.twin_value = validate_response(codec.twin)]
    /\ Frame

NextCodec == ConstructReport \/ ValidateResponse \/ ValidateTwins

SpecCodec == InitCodec /\ [][NextCodec]_vars

Constructed == codec.fn = "construct_razer_report" /\ codec.done
Validated == codec.fn = "validate_response" /\ codec.done

(***************************************************************************)
(* C18: for header bytes and an argument list of at most 80 byte values,   *)
(* construct_razer_report returns exactly 90 bytes: byte 0 = 0, byte 1 =   *)
(* transaction id, bytes 2-4 = 0, byte 5 = data size, byte 6 = command     *)
(* class, byte 7 = command id, bytes 8..87 = the arguments zero-padded to  *)
(* 80 bytes, byte 89 = 0, and byte 88 = the XOR of bytes 2..87 of the      *)
(* finished report.                                                        *)
(***************************************************************************)
C18_ReportLayout ==
    (Constructed /\ Len(codec.arguments) <= 80 /\ ByteLike(codec.arguments)) =>
       LET report == codec.value.report IN
       /\ codec.value.raised = "none"
       /\ Len(report) = 90
       /\ At(report, 0) = 0
       /\ At(report, 1) = codec.transaction_id
       /\ \A k \in 2..4 : At(report, k) = 0
       /\ At(report, 5) = codec.data_size
       /\ At(report, 6) = codec.command_class
       /\ At(report, 7) = codec.command_id
       /\ \A k \in 8..87 :
             At(report, k) = IF k - 8 < Len(codec.arguments) THEN At(codec.arguments, k - 8)
                             ELSE 0
       /\ At(report, 89) = 0
       /\ At(report, 88) = XorRange(report, 2, 87)

\* a report with 9 arguments whose checksum is not the checksum of an empty report
C18_Witness ==
    /\ Constructed
    /\ Len(codec.arguments) = 9
    /\ codec.value.raised = "none"
    /\ At(codec.value.report, 88) # XorRange(ReportBody(codec.transaction_id,
                                       codec.command_class, codec.command_id,
                                       codec.data_size, <<>>), 2, 87)

(***************************************************************************)
(* C19: construct_razer_report raises the argument error (ValueError) and  *)
(* returns no report when the argument list has more than 80 elements or   *)
(* holds a value outside 0..255; a list of exactly 80 byte values is       *)
(* accepted and written in full.                                           *)
(***************************************************************************)
C19_ArgumentError ==
    Constructed =>
       /\ (Len(codec.arguments) > 80 \/ \E k \in 1..Len(codec.arguments) :
                                           codec.arguments[k] < 0 \/ codec.arguments[k] > 255)
             => codec.value.raised = "ValueError" /\ codec.value.report = <<>>
       /\ (Len(codec.arguments) = 80 /\ ByteLike(codec.arguments))
             => /\ codec.value.raised = "none"
                /\ SubSeq(codec.value.report, 9, 88) = codec.arguments

\* 81 byte values are refused
C19_Witness ==
    /\ Constructed
    /\ Len(codec.arguments) = 81
    /\ ByteLike(codec.arguments)
    /\ codec.value.raised = "ValueError"

(***************************************************************************)
(* C20: validate_response returns false exactly when the response is       *)
(* absent or empty, has 9 or fewer bytes (whatever its status), or has at  *)
(* index 1 the status busy 0x01, failure 0x03, timeout 0x04 or             *)
(* not-supported 0x05; for every other response of 10 or more bytes        *)
(* (status success 0x02, new 0x00, or an unrecognized value such as 0x06   *)
(* or 0xFF) it returns true.                                               *)
(***************************************************************************)
C20_ValidateDecision ==
    Validated =>
       (codec.value = FALSE <=>
          \/ Len(codec.response) = 0
          \/ Len(codec.response) <= 9
          \/ At(codec.response, 1) \in {1, 3, 4, 5})

\* a 10-byte response with the "new" status is accepted
C20_Witness ==
    /\ Validated
    /\ Len(codec.response) = 10
    /\ At(codec.response, 1) = 0
    /\ codec.value = TRUE

(***************************************************************************)
(* get_battery_level and get_charging_status: at most QueryAttempts        *)
(* exchanges, 0.5 s of sleep after the first one when it gave nothing      *)
(* usable.  caller.log lists the exchanges and the sleeps in order,        *)
(* caller.responses what each exchange returned.                           *)
(***************************************************************************)
Max(a, b) == IF a > b THEN a ELSE b

\* Python round() of num / den for num >= 0, den > 0: to the nearest integer, a tie to
\* the even one.  raw / 255 * 100 is computed in floating point; no raw in 0..255 comes
\* closer to a tie than 1/510, so the float and the exact quotient round alike.
RoundHalfEven(num, den) ==
    LET q == num \div den
        r == num % den
    IN  IF 2 * r < den THEN q
        ELSE IF 2 * r > den THEN q + 1
        ELSE IF q % 2 = 0 THEN q ELSE q + 1

\* a level cut down to the integer below
BatteryLevelTruncated(raw) == Min(Max((raw * 100) \div 255, 0), 100)

\* line 1067: min(max(round(raw / 255 * 100), 0), 100)
BatteryLevel(raw) == Min(Max(RoundHalfEven(raw * 100, 255), 0), 100)

\* a charging flag that is set whatever the byte
ChargingAlways(raw) == TRUE

\* line 1089: response[10] > 0
Charging(raw) == raw > 0

\* `if response and len(response) > 10`
Usable(resp) == resp # <<>> /\ Len(resp) > 10

\* an error leaves the function that is running
Propagate ==
    /\ pc' = "raised"
    /\ UNCHANGED <<selected_device, hid, codec, app, command_desc, preferred_path, interfaces, i,
                   attempt, dev, exc, response, attempted_ifaces, io_errors,
                   open_failed_count, success, result, opens, open_handles, tries>>

\* the query has returned: the exchange is left as it ended
Leave ==
    UNCHANGED <<selected_device, hid, codec, app, pc, command_desc, preferred_path, interfaces, i,
                attempt, dev, exc, response, attempted_ifaces, io_errors,
                open_failed_count, success, result, opens, open_handles, tries>>

\* lines 1061-1065 and 1083-1087: the report is built, the first exchange is made
Query(fn, command_id) ==
    /\ LET tid == Get(selected_device, "transaction_id", DefaultTransactionId)
           built == construct_razer_report(tid, 7, command_id, 2, <<0, 0>>)
       IN  IF built.raised # "none"
           THEN caller' = [caller EXCEPT !.fn = fn] /\ Propagate
           ELSE /\ caller' = [caller EXCEPT !.fn = fn, !.report = built.report,
                                            !.attempt = 0, !.log = <<"exchange">>]
                /\ Exchange(fn)

\* lines 1057-1065
get_battery_level ==
    /\ pc = "idle"
    /\ caller.fn = "none"
    /\ Query("get_battery_level", 128)

\* lines 1079-1087
get_charging_status ==
    /\ pc = "idle"
    /\ caller.fn = "none"
    /\ Query("get_charging_status", 132)

\* `if attempt == 0: time.sleep(0.5)`
Slept == IF caller.attempt = 0 THEN <<"sleep">> ELSE <<>>

\* a loop that makes its second exchange at once
GetBatteryLevelLoopNoSleep ==
    /\ pc = "done"
    /\ caller.fn = "get_battery_level"
    /\ ~caller.returned
    /\ IF Usable(result)
       THEN /\ caller' = [caller EXCEPT !.responses = Append(@, result), !.returned = TRUE,
                                        !.level = BatteryLevel(At(result, 10))]
            /\ Leave
       ELSE IF caller.attempt + 1 < QueryAttempts
       THEN /\ caller' = [caller EXCEPT !.responses = Append(@, result),
                                        !.attempt = @ + 1,
                                        !.log = @ \o <<"exchange">>]
            /\ Exchange(caller.fn)
       ELSE /\ caller' = [caller EXCEPT !.responses = Append(@, result), !.returned = TRUE,
                                        !.level = -1, !.log = @ \o Slept]
            /\ Leave

\* a loop that reports level 0 when it has nothing
GetBatteryLevelLoopZero ==
    /\ pc = "done"
    /\ caller.fn = "get_battery_level"
    /\ ~caller.returned
    /\ IF Usable(result)
       THEN /\ caller' = [caller EXCEPT !.responses = Append(@, result), !.returned = TRUE,
                                        !.level = BatteryLevel(At(result, 10))]
            /\ Leave
       ELSE IF caller.attempt + 1 < QueryAttempts
       THEN /\ caller' = [caller EXCEPT !.responses = Append(@, result),
                                        !.attempt = @ + 1,
                                        !.log = @ \o Slept \o <<"exchange">>]
            /\ Exchange(caller.fn)
       ELSE /\ caller' = [caller EXCEPT !.responses = Append(@, result), !.returned = TRUE,
                                        !.level = 0, !.log = @ \o Slept]
            /\ Leave

\* lines 1064-1076: the exchange has returned into `for attempt in range(2)`
GetBatteryLevelLoop ==
    /\ pc = "done"
    /\ caller.fn = "get_battery_level"
    /\ ~caller.returned
    /\ IF Usable(result)
       THEN /\ caller' = [caller EXCEPT !.responses = Append(@, result), !.returned = TRUE,
                                        !.level = BatteryLevel(At(result, 10))]
            /\ Leave
       ELSE IF caller.attempt + 1 < QueryAttempts
       THEN /\ caller' = [caller EXCEPT !.responses = Append(@, result),
                                        !.attempt = @ + 1,
                                        !.log = @ \o Slept \o <<"exchange">>]
            /\ Exchange(caller.fn)
       ELSE /\ caller' = [caller EXCEPT !.responses = Append(@, result), !.returned = TRUE,
                                        !.level = -1, !.log = @ \o Slept]
            /\ Leave

\* lines 1086-1097
GetChargingStatusLoop ==
    /\ pc = "done"
    /\ caller.fn = "get_charging_status"
    /\ ~caller.returned
    /\ IF Usable(result)
       THEN /\ caller' = [caller EXCEPT !.responses = Append(@, result), !.returned = TRUE,
                                        !.charging = Charging(At(result, 10))]
            /\ Leave
       ELSE IF caller.attempt + 1 < QueryAttempts
       THEN /\ caller' = [caller EXCEPT !.responses = Append(@, result),
                                        !.attempt = @ + 1,
                                        !.log = @ \o Slept \o <<"exchange">>]
            /\ Exchange(caller.fn)
       ELSE /\ caller' = [caller EXCEPT !.responses = Append(@, result), !.returned = TRUE,
                                        !.charging = FALSE, !.log = @ \o Slept]
            /\ Leave

\* what the device answers under the queries: battery byte 200, battery byte 0, the
\* first 10 bytes of a good response, a busy device
EmptyBattery == make_razer_response(RAZER_STATUS_SUCCESS, 0)
TenByteResponse == FirstN(SuccessResponse, 10)
QueryResponses == {SuccessResponse, EmptyBattery, TenByteResponse, BusyResponse}

\* one error of each type the exchange tells apart
QueryRaises == {OpenFailed, Malformed, CloseFailed}

InitQuery ==
    /\ \E n \in 0..MaxQueryIfaces : selected_device = Device(Unordered(n), NoPath)
    /\ hid = [raises |-> QueryRaises, responses |-> QueryResponses]
    /\ InitLocals

NextQuery ==
    \/ Next
    \/ get_battery_level
    \/ GetBatteryLevelLoop
    \/ get_charging_status
    \/ GetChargingStatusLoop

SpecQuery == InitQuery /\ [][NextQuery]_vars

Queries == {"get_battery_level", "get_charging_status"}

\* what the query's exchange number k returned was of no use to it
Unusable(k) == caller.responses[k] = <<>> \/ Len(caller.responses[k]) <= 10

HasUsable == \E k \in 1..Len(caller.responses) : ~Unusable(k)

\* byte 10 of the first response the query could use
FirstUsableByte ==
    LET k == CHOOSE k \in 1..Len(caller.responses) :
                ~Unusable(k) /\ \A j \in 1..(k - 1) : Unusable(j)
    IN  At(caller.responses[k], 10)

\* level is the integer nearest to raw * 100 / 255
Nearest(level, raw) ==
    LET d == 255 * level - 100 * raw IN 2 * (IF d < 0 THEN -d ELSE d) < 255

(***************************************************************************)
(* C12: get_battery_level and get_charging_status invoke the exchange at   *)
(* most twice per call; the second invocation happens exactly when the     *)
(* first returned none or a response of 10 bytes or fewer, and the fixed   *)
(* delay precedes it; there is never a third invocation nor a delay after  *)
(* the second failure.                                                     *)
(***************************************************************************)
C12_RetryOnceAfterDelay ==
    caller.fn \in Queries =>
       /\ caller.log \in {<<"exchange">>, <<"exchange", "sleep", "exchange">>}
       /\ Len(caller.responses) >= 1 => (Len(caller.log) = 3 <=> Unusable(1))
       /\ caller.returned => Len(caller.responses) = (Len(caller.log) + 1) \div 2

\* the charging query got 10 bytes first, slept, and asked again
C12_Witness ==
    /\ caller.fn = "get_charging_status"
    /\ caller.returned
    /\ caller.log = <<"exchange", "sleep", "exchange">>
    /\ Len(caller.responses[1]) = 10
    /\ Unusable(2)

(***************************************************************************)
(* C13: get_battery_level returns -1 or an integer in 0..100; it returns   *)
(* -1 exactly when both exchange invocations returned none or a response   *)
(* of 10 bytes or fewer, and otherwise the scaled value of the byte at     *)
(* index 10 of the first usable response, so a genuine level 0 is not      *)
(* taken for a failure.                                                    *)
(***************************************************************************)
C13_LevelOrMinusOne ==
    (caller.fn = "get_battery_level" /\ caller.returned) =>
       /\ caller.level \in {-1} \cup 0..100
       /\ caller.level = -1 <=> (Len(caller.responses) = 2 /\ Unusable(1) /\ Unusable(2))
       /\ HasUsable => Nearest(caller.level, FirstUsableByte)

\* level 0 from the second exchange, after a first one that gave nothing
C13_Witness ==
    /\ caller.fn = "get_battery_level"
    /\ caller.returned
    /\ caller.level = 0
    /\ Len(caller.responses) = 2
    /\ caller.responses[1] = <<>>
    /\ At(caller.responses[2], 10) = 0

(***************************************************************************)
(* C15: get_charging_status returns true exactly when the first usable     *)
(* response (more than 10 bytes) among its at most two exchanges has a     *)
(* non-zero byte at index 10; it returns false when that byte is 0 and     *)
(* also when both exchanges fail.                                          *)
(***************************************************************************)
C15_ChargingIffNonZero ==
    (caller.fn = "get_charging_status" /\ caller.returned) =>
       /\ Len(caller.responses) <= 2
       /\ caller.charging <=> (HasUsable /\ FirstUsableByte # 0)

\* false for "device unreachable": both exchanges failed
C15_Witness ==
    /\ caller.fn = "get_charging_status"
    /\ caller.returned
    /\ ~caller.charging
    /\ Len(caller.responses) = 2
    /\ ~HasUsable

(***************************************************************************)
(* C16 as stated: whenever get_battery_level returns -1, the descriptor's  *)
(* last-operation success flag is false after the call.                    *)
(***************************************************************************)
C16_MinusOneMeansNotOk ==
    (caller.fn = "get_battery_level" /\ caller.returned /\ caller.level = -1) =>
       selected_device["_diag_last_ok"] = FALSE

(***************************************************************************)
(* C16 amended: when get_battery_level returns -1, its second exchange     *)
(* returned none, and then the success flag is false, or it returned a     *)
(* validated response of exactly 10 bytes, and then the success flag is    *)
(* true: the exchange succeeded although the query has no level.           *)
(***************************************************************************)
C16_MinusOneOkOnlyForTenBytes ==
    (caller.fn = "get_battery_level" /\ caller.returned /\ caller.level = -1) =>
       /\ Len(caller.responses) = 2
       /\ IF caller.responses[2] = <<>>
          THEN selected_device["_diag_last_ok"] = FALSE
          ELSE /\ Len(caller.responses[2]) = 10
               /\ validate_response(caller.responses[2])
               /\ selected_device["_diag_last_ok"] = TRUE

\* -1 after two exchanges that each returned 10 validated bytes
C16_Witness ==
    /\ caller.fn = "get_battery_level"
    /\ caller.returned
    /\ caller.level = -1
    /\ Len(caller.responses[1]) = 10
    /\ Len(caller.responses[2]) = 10
    /\ selected_device["_diag_last_ok"] = TRUE

(***************************************************************************)
(* C17: the exchange, send_report_to_device, get_battery_level and         *)
(* get_charging_status never let an error reach their caller, whatever     *)
(* open, send, read and close failures the HID layer produces: a call      *)
(* that has not returned can always go on, and a failure ends as a         *)
(* sentinel (none, false, -1).                                             *)
(***************************************************************************)
C17_NoErrorPropagates ==
    /\ pc # "raised"
    /\ exc # NoExc => pc = "except"
    /\ (pc \notin {"idle", "done", "so_done"} \/ (pc = "done" /\ caller.fn \in Queries
                                                  /\ ~caller.returned))
          => ENABLED NextQuery
    /\ (pc = "done" /\ \A k \in 1..Len(tries) : tries[k].outcome # "valid") => result = <<>>
    /\ (pc = "so_done" /\ opens = <<>>) => success = FALSE
    /\ (caller.returned /\ ~HasUsable) =>
          IF caller.fn = "get_battery_level" THEN caller.level = -1 ELSE ~caller.charging

\* -1 after an open failure and a failure of close() in the last exchange
C17_Witness ==
    /\ caller.fn = "get_battery_level"
    /\ caller.returned
    /\ caller.level = -1
    /\ Len(tries) = 2
    /\ tries[1].outcome = "OSError" /\ tries[1].site = "open"
    /\ tries[2].outcome = "Exception" /\ tries[2].site = "close"

(***************************************************************************)
(* The queries against a device that answers with one battery byte, for    *)
(* every byte.                                                             *)
(***************************************************************************)
Bytes == 0..255

InitLevels ==
    /\ selected_device = Device(Unordered(1), NoPath)
    /\ \E raw \in Bytes :
          hid = [raises |-> {OpenFailed},
                 responses |-> {make_razer_response(RAZER_STATUS_SUCCESS, raw)}]
    /\ InitLocals

SpecLevels == InitLevels /\ [][NextQuery]_vars

\* the raw -> percent pairs of test_battery_scaling_parametrized
KnownLevels ==
    (0 :> 0) @@ (13 :> 5) @@ (51 :> 20) @@ (64 :> 25) @@ (128 :> 50) @@ (191 :> 75)
    @@ (230 :> 90) @@ (255 :> 100)

(***************************************************************************)
(* C14: for every raw byte 0..255 the level get_battery_level computes is  *)
(* the integer nearest to raw * 100 / 255 (no raw value is an exact tie),  *)
(* lies in 0..100, is non-decreasing in raw, and maps 0 to 0, 13 to 5, 51  *)
(* to 20, 64 to 25, 128 to 50, 191 to 75, 230 to 90 and 255 to 100.        *)
(***************************************************************************)
C14_NearestPercent ==
    (caller.fn = "get_battery_level" /\ caller.returned /\ HasUsable) =>
       LET raw == FirstUsableByte IN
       /\ Nearest(caller.level, raw)
       /\ (200 * raw) % 510 # 255
       /\ caller.level \in 0..100
       /\ \A below \in 0..raw : BatteryLevel(below) <= caller.level
       /\ raw \in DOMAIN KnownLevels => caller.level = KnownLevels[raw]

\* 191 gives 75: 74.9 is rounded up
C14_Witness ==
    /\ caller.fn = "get_battery_level"
    /\ caller.returned
    /\ HasUsable
    /\ FirstUsableByte = 191
    /\ caller.level = 75

(***************************************************************************)
(* C21: the result of validate_response does not depend on the checksum:   *)
(* two responses of the same length with the same status byte get the same *)
(* result even when their checksum byte or the bytes it covers differ, and *)
(* a success response of 90 bytes or more whose checksum byte is corrupted *)
(* is still valid.                                                         *)
(***************************************************************************)
C21_ChecksumIndependent ==
    (codec.fn = "validate_response twice" /\ codec.done) =>
       /\ Len(codec.response) = Len(codec.twin)
       /\ Len(codec.twin) > 1 => At(codec.response, 1) = At(codec.twin, 1)
       /\ codec.value = codec.twin_value
       /\ (Len(codec.twin) >= 90 /\ At(codec.twin, 1) = RAZER_STATUS_SUCCESS)
             => codec.twin_value = TRUE

\* a 91-byte success response and its copy with the checksum byte corrupted
C21_Witness ==
    /\ codec.fn = "validate_response twice"
    /\ codec.done
    /\ Len(codec.twin) = 91
    /\ At(codec.twin, 1) = RAZER_STATUS_SUCCESS
    /\ At(codec.twin, 89) # At(codec.response, 89)
    /\ At(codec.twin, 10) = At(codec.response, 10)
    /\ crc_mismatch(codec.twin) /\ ~crc_mismatch(codec.response)
    /\ codec.value = TRUE /\ codec.twin_value = TRUE

(***************************************************************************)
(* C22: send_report_to_device attempts every interface of the descriptor   *)
(* exactly once, in the presented order, with no retry and without         *)
(* stopping after a success, and returns true exactly when at least one    *)
(* interface reported a write of the full prefixed report length; a        *)
(* partial write, an error on every interface, or an empty interface list  *)
(* gives false.                                                            *)
(***************************************************************************)
C22_EveryInterfaceOnce ==
    pc = "so_done" =>
       /\ Len(tries) = Len(selected_device.interfaces)
       /\ \A k \in 1..Len(tries) : tries[k].path = selected_device.interfaces[k].path
       /\ \A p \in Paths : Count(opens, p) <= 1
       /\ success <=> \E k \in 1..Len(tries) : tries[k].outcome = "full"

\* a full write on the first interface, a partial one on the second: still true
C22_Witness ==
    /\ pc = "so_done"
    /\ Len(tries) = 2
    /\ tries[1].outcome = "full"
    /\ tries[2].outcome = "partial"
    /\ success

(***************************************************************************)
(* scan_razer_devices.  An enumeration entry is a dict that may lack any   *)
(* of its keys; devices_grouped is the insertion-ordered dict, kept as a   *)
(* sequence of (key, device) pairs.                                        *)
(***************************************************************************)
\* RAZER_DEVICES, RAZER_DEVICE_TYPES and RAZER_TRANSACTION_IDS at two of their keys
RAZER_DEVICES == (153 :> "Razer Basilisk V3") @@ (183 :> "Razer DeathAdder V3 Pro (Wireless)")
RAZER_DEVICE_TYPES == (153 :> "mouse") @@ (183 :> "mouse")
RAZER_TRANSACTION_IDS == (153 :> 31) @@ (183 :> 31)

\* a product id that is in no registry
UnknownPid == 65535

Entry(pid, serial, path, num) ==
    [product_id |-> pid, serial_number |-> serial, product_string |-> "Razer", path |-> path,
     interface_number |-> num]

Without(entry, key) == [f \in DOMAIN entry \ {key} |-> entry[f]]

\* what hid.enumerate can list: two interfaces of one mouse, a second entry for the first
\* path (another usage page), the same mouse without a serial number, a second product on
\* the first path, an unregistered product, and entries that lack the path or the product id
EntryPool ==
    { Entry(183, "SN123", 1, 0),
      Entry(183, "SN123", 2, 1),
      Entry(183, "SN123", 1, 2),
      Without(Without(Entry(183, "SN123", 3, 0), "serial_number"), "interface_number"),
      Entry(153, "SN123", 1, 0),
      Entry(UnknownPid, "SN123", 2, 0),
      Without(Entry(183, "SN123", 2, 0), "path"),
      Without(Entry(153, "SN_BAD", 3, 0), "path"),
      Without(Entry(183, "SN123", 1, 0), "product_id") }

Enumerations == UNION { [1..n -> EntryPool] : n \in 0..MaxEntries }

InitScan ==
    /\ selected_device = Device(<<>>, NoPath)
    /\ hid = [raises |-> {}, responses |-> {}]
    /\ InitFrame
    /\ app = NoApp
    /\ \E raises \in BOOLEAN, entries \in Enumerations :
          /\ raises => entries = <<>>
          /\ codec = [fn |-> "scan_razer_devices", raises |-> raises, all_devices |-> entries,
                      pc |-> "enumerate", enumerated |-> <<>>, k |-> 1,
                      devices_grouped |-> <<>>, skipped |-> 0, value |-> <<>>]

\* list(devices_grouped.values())
Values(devices_grouped) == [n \in 1..Len(devices_grouped) |-> devices_grouped[n].device]

\* an enumeration failure that reaches the caller
EnumerateFailedRaises == codec' = [codec EXCEPT !.pc = "raised"]

\* lines 848-850: logged, `return []`
EnumerateFailed == codec' = [codec EXCEPT !.pc = "done", !.value = <<>>]

\* lines 846-857
ScanEnumerate ==
    /\ codec.fn = "scan_razer_devices"
    /\ codec.pc = "enumerate"
    /\ IF codec.raises THEN EnumerateFailed
       ELSE IF codec.all_devices = <<>> THEN codec' = [codec EXCEPT !.pc = "done", !.value = <<>>]
       ELSE LET registered(d) == Get(d, "product_id", UnknownPid) \in DOMAIN RAZER_DEVICES
                enumerated == SelectSeq(codec.all_devices, registered)
            IN  IF enumerated = <<>>
                THEN codec' = [codec EXCEPT !.pc = "done", !.value = <<>>]
                ELSE codec' = [codec EXCEPT !.pc = "for_dev", !.enumerated = enumerated]
    /\ Frame

\* position of key in the dict, 0 when it is not in it
KeyIndex(devices_grouped, key) ==
    IF \E n \in 1..Len(devices_grouped) : devices_grouped[n].key = key
    THEN CHOOSE n \in 1..Len(devices_grouped) : devices_grouped[n].key = key
    ELSE 0

\* lines 867-875: the new group of a key
NewGroup(pid) ==
    [name |-> RAZER_DEVICES[pid], pid |-> pid, type |-> RAZER_DEVICE_TYPES[pid],
     transaction_id |-> RAZER_TRANSACTION_IDS[pid], interfaces |-> <<>>]

\* a grouping that appends every entry's path
GroupedNoDedup(devices_grouped, key, path, interface_num) ==
    LET with == IF KeyIndex(devices_grouped, key) = 0
                THEN Append(devices_grouped, [key |-> key, device |-> NewGroup(key[3])])
                ELSE devices_grouped
        n == KeyIndex(with, key)
    IN  [with EXCEPT ![n].device.interfaces =
              Append(@, [path |-> path, interface_number |-> interface_num])]

\* lines 867-883: the group is created when its key is new; the path is appended unless
\* the group has it
Grouped(devices_grouped, key, path, interface_num) ==
    LET with == IF KeyIndex(devices_grouped, key) = 0
                THEN Append(devices_grouped, [key |-> key, device |-> NewGroup(key[3])])
                ELSE devices_grouped
        n == KeyIndex(with, key)
        existing_paths == {with[n].device.interfaces[j].path :
                              j \in 1..Len(with[n].device.interfaces)}
    IN  IF path \notin existing_paths
        THEN [with EXCEPT ![n].device.interfaces =
                  Append(@, [path |-> path, interface_number |-> interface_num])]
        ELSE with

\* a malformed entry that ends the scan with what was grouped so far
SkipAborts ==
    codec' = [codec EXCEPT !.pc = "done", !.skipped = @ + 1,
                           !.value = Values(codec.devices_grouped)]

\* lines 884-886: the warning, and `continue`
Skip == codec' = [codec EXCEPT !.k = @ + 1, !.skipped = @ + 1]

\* lines 858-886: the body of `for dev in enumerated`
ScanEntry ==
    /\ codec.fn = "scan_razer_devices"
    /\ codec.pc = "for_dev"
    /\ codec.k <= Len(codec.enumerated)
    /\ LET dev_entry == codec.enumerated[codec.k] IN
       IF "product_id" \notin DOMAIN dev_entry \/ "path" \notin DOMAIN dev_entry
       THEN Skip
       ELSE LET pid == dev_entry.product_id
                path == dev_entry.path
                interface_num == Get(dev_entry, "interface_number", UnknownIface)
                serial == Get(dev_entry, "serial_number", "N/A")
                prod_str == Get(dev_entry, "product_string", "N/A")
                key == <<serial, prod_str, pid>>
            IN  codec' = [codec EXCEPT
                            !.k = @ + 1,
                            !.devices_grouped = Grouped(@, key, path, interface_num)]
    /\ Frame

\* line 887
ScanReturn ==
    /\ codec.fn = "scan_razer_devices"
    /\ codec.pc = "for_dev"
    /\ codec.k > Len(codec.enumerated)
    /\ codec' = [codec EXCEPT !.pc = "done", !.value = Values(codec.devices_grouped)]
    /\ Frame

NextScan == ScanEnumerate \/ ScanEntry \/ ScanReturn

SpecScan == InitScan /\ [][NextScan]_vars

ScanDone == codec.fn = "scan_razer_devices" /\ codec.pc = "done"

Registered(entry) ==
    "product_id" \in DOMAIN entry /\ entry.product_id \in DOMAIN RAZER_DEVICES

\* a registered entry that lacks nothing the scan requires
WellFormed(entry) == Registered(entry) /\ "path" \in DOMAIN entry

\* a registered entry that lacks its path
LacksPath(entry) == Registered(entry) /\ "path" \notin DOMAIN entry

\* the grouping key: serial number, product string, product id
KeyOf(entry) ==
    <<Get(entry, "serial_number", "N/A"), Get(entry, "product_string", "N/A"),
      entry.product_id>>

WellFormedEntries == SelectSeq(codec.all_devices, WellFormed)

GroupKeys == {KeyOf(WellFormedEntries[n]) : n \in 1..Len(WellFormedEntries)}

\* the well-formed entries of a key, in enumeration order
GroupOf(key) == SelectSeq(WellFormedEntries, LAMBDA entry : KeyOf(entry) = key)

\* one interface per distinct path of the entries, as first seen
FirstSeen(entries) ==
    LET firsts == {j \in 1..Len(entries) : \A h \in 1..(j - 1) : entries[h].path # entries[j].path}
        nth(n) == CHOOSE j \in firsts : Cardinality({h \in firsts : h < j}) = n - 1
    IN  [n \in 1..Cardinality(firsts) |->
            [path |-> entries[nth(n)].path,
             interface_number |-> Get(entries[nth(n)], "interface_number", UnknownIface)]]

(***************************************************************************)
(* C23: scan returns exactly one descriptor per distinct (serial number,   *)
(* product string, product id) key among the well-formed entries with a    *)
(* registered product id; a descriptor's interfaces are the distinct paths *)
(* of its group's entries in first-seen order: no path twice in a          *)
(* descriptor, no descriptor without interfaces, none with an unregistered *)
(* product id.                                                             *)
(***************************************************************************)
C23_OneDescriptorPerKey ==
    (ScanDone /\ ~codec.raises) =>
       LET grouped == codec.devices_grouped IN
       /\ codec.value = Values(grouped)
       /\ Len(grouped) = Cardinality(GroupKeys)
       /\ {grouped[n].key : n \in 1..Len(grouped)} = GroupKeys
       /\ \A n \in 1..Len(grouped) :
             LET device == codec.value[n] IN
             /\ device.interfaces = FirstSeen(GroupOf(grouped[n].key))
             /\ \A a, b \in 1..Len(device.interfaces) :
                   device.interfaces[a].path = device.interfaces[b].path => a = b
             /\ device.interfaces # <<>>
             /\ device.pid = grouped[n].key[3]
             /\ device.pid \in DOMAIN RAZER_DEVICES

\* three entries of one mouse, two of them for the same path: one descriptor, two interfaces
C23_Witness ==
    /\ ScanDone
    /\ Len(codec.all_devices) = 3
    /\ Len(WellFormedEntries) = 3
    /\ Len(codec.value) = 1
    /\ Len(codec.value[1].interfaces) = 2
    /\ codec.all_devices[1].path = codec.all_devices[2].path

(***************************************************************************)
(* C24: an enumeration entry that lacks a required field (its path) is     *)
(* skipped without aborting the scan: every well-formed registered entry   *)
(* before or after it is in the result, and the malformed entry            *)
(* contributes no descriptor and no interface.                             *)
(***************************************************************************)
C24_MalformedEntrySkipped ==
    (ScanDone /\ \E n \in 1..Len(codec.all_devices) : LacksPath(codec.all_devices[n])) =>
       LET grouped == codec.devices_grouped IN
       /\ codec.value = Values(grouped)
       /\ \A n \in 1..Len(codec.all_devices) :
             LET entry == codec.all_devices[n] IN
             WellFormed(entry) =>
                \E g \in 1..Len(grouped) :
                   /\ grouped[g].key = KeyOf(entry)
                   /\ \E j \in 1..Len(grouped[g].device.interfaces) :
                         grouped[g].device.interfaces[j].path = entry.path
       /\ \A g \in 1..Len(grouped) :
             /\ grouped[g].key \in GroupKeys
             /\ \A j \in 1..Len(grouped[g].device.interfaces) :
                   \E n \in 1..Len(WellFormedEntries) :
                      /\ KeyOf(WellFormedEntries[n]) = grouped[g].key
                      /\ WellFormedEntries[n].path = grouped[g].device.interfaces[j].path
       /\ codec.skipped = Len(SelectSeq(codec.all_devices, LacksPath))

\* an entry without path between two good entries: both are returned, it is not
C24_Witness ==
    /\ ScanDone
    /\ Len(codec.all_devices) = 3
    /\ WellFormed(codec.all_devices[1])
    /\ LacksPath(codec.all_devices[2])
    /\ WellFormed(codec.all_devices[3])
    /\ KeyOf(codec.all_devices[1]) # KeyOf(codec.all_devices[3])
    /\ KeyOf(codec.all_devices[2]) \notin GroupKeys
    /\ Len(codec.value) = 2

(***************************************************************************)
(* C25: when the HID enumeration itself fails, scan returns an empty list  *)
(* and no error reaches the caller; it also returns an empty list when the *)
(* enumeration has no entries or no entry with a registered product id.    *)
(***************************************************************************)
C25_EnumerationFailureIsEmpty ==
    codec.fn = "scan_razer_devices" =>
       /\ codec.pc # "raised"
       /\ codec.pc # "done" => ENABLED NextScan
       /\ (codec.pc = "done"
           /\ (codec.raises \/ \A n \in 1..Len(codec.all_devices) :
                                   ~Registered(codec.all_devices[n])))
             => codec.value = <<>>

\* the enumeration raised and the scan returned the empty list
C25_Witness == ScanDone /\ codec.raises /\ codec.value = <<>>

(***************************************************************************)
(* The menu-bar tray, razer_battery_tray.py.  `app` is the RazerBatteryApp *)
(* object: its attributes, the threads it has started, the wall clock, and *)
(* history fields that record what the last handler and the last update    *)
(* did.  The protocol layer below it is represented by what it hands to    *)
(* the tray: the list scan_razer_devices returns, the level                *)
(* get_battery_level returns, the flag get_charging_status returns.        *)
(***************************************************************************)
DISCONNECTED_POLL == 30
STALENESS_THRESHOLD == 600
MAX_CONSECUTIVE_FAILURES == 3
MAX_FAILURE_BACKOFF == 300
ACCESS_HINT_COOLDOWN == 900
POLL_CHOICES == {60, 300, 600, 900}
THRESHOLD_CHOICES == {0, 10, 15, 20}
DISPLAY_CHOICES == {"icon_percent", "percent_only", "icon_only"}

\* settings.py: the settings of a fresh installation
DEFAULTS == [poll_interval |-> 300, low_battery_threshold |-> 20, low_battery_notify |-> TRUE,
             display_mode |-> "icon_percent"]

\* updates run in one behaviour, threads alive at once, clock advances in one behaviour
MaxUpdates == 3
MaxThreads == 2
MaxTicks == 4

\* time.time() when the application is constructed, and the period of the 60 s poll timer
Launch == 1000
PollTimer == 60

\* the clock advances by the period of the fastest timer, or by a night of system sleep
Nap == DISCONNECTED_POLL
Sleep == STALENESS_THRESHOLD + DISCONNECTED_POLL
Delays == {Nap, Sleep}

\* the title of the menu-bar item: an emoji (none when icon files are used), and a text that is
\* the placeholder, the warning sign, a percentage or nothing
NoPercent == -1
Title(glyph, text, percent) == [glyph |-> glyph, text |-> text, percent |-> percent]
Placeholder(icon_dir) == Title(IF icon_dir THEN "" ELSE "battery", "--", NoPercent)
WarningSign(icon_dir) == Title(IF icon_dir THEN "" ELSE "battery", "warning", NoPercent)

\* what the protocol layer hands to one update: the scan result (or that the scan raised), the
\* battery level, the charging flag, and the call that raises, if one does
\* the descriptors a scan can return, by the name of their test fixture, and their 'type'
TypeOf == ("keyboard_device" :> "keyboard") @@ ("mouse_device" :> "mouse")
          @@ ("mouse_device_2" :> "mouse")
ScanResults == {<<>>, <<"keyboard_device">>,
                <<"keyboard_device", "mouse_device", "mouse_device_2">>}
Levels == {-1, 0, 15, 16}
RaiseSites == {"get_battery_level", "get_charging_status", "rumps.notification"}
World(scan_raises, scan, battery, charging, raises) ==
    [scan_raises |-> scan_raises, scan |-> scan, battery |-> battery, charging |-> charging,
     raises |-> raises]
Scanned == {[scan_raises |-> TRUE, scan |-> <<>>]} \cup
           {[scan_raises |-> FALSE, scan |-> s] : s \in ScanResults}
Worlds ==
    {World(s.scan_raises, s.scan, b, c, r) :
        s \in Scanned, b \in Levels, c \in BOOLEAN, r \in RaiseSites \cup {"none"}}

\* scheduling is examined where the mouse is absent, its battery read fails, or it reads 16 %
PlainWorlds ==
    {World(FALSE, <<>>, -1, FALSE, "none"),
     World(FALSE, <<"keyboard_device", "mouse_device">>, -1, FALSE, "none"),
     World(FALSE, <<"keyboard_device", "mouse_device">>, 16, FALSE, "none")}
\* the mouse is there and its battery reads succeed; a notification may still fail
GoodWorlds ==
    {World(FALSE, <<"keyboard_device", "mouse_device">>, 16, FALSE, raises) :
        raises \in {"none", "rumps.notification"}}

\* no device is found, or the mouse is found and read
TroubleWorlds ==
    {World(FALSE, <<>>, -1, FALSE, "none"),
     World(FALSE, <<"keyboard_device", "mouse_device">>, 16, FALSE, "none")}

WorldsOf(a) ==
    IF a.environment \in {"plain", "denied", "raising"} THEN PlainWorlds
    ELSE IF a.environment = "trouble" THEN TroubleWorlds
    ELSE IF a.environment = "good" THEN GoodWorlds
    ELSE Worlds

\* no handler has asked for an update, no update has run
NoTrigger == [by |-> "none", outcome |-> "none"]
NoLevel == -2
NoUpdate == [level |-> NoLevel, raised |-> "none", succeeded |-> FALSE, fired |-> FALSE,
             scanned |-> FALSE]
NoScan == [raises |-> FALSE, devices |-> <<>>]
NoRecovery == [updates |-> 0, failures |-> 0]

\* lines 160-206: the attributes __init__ sets before it calls find_device and update_battery
Constructed_App(icon_dir, settings, environment) ==
    [pc |-> "init",
     environment |-> environment,
     icon_dir |-> icon_dir,
     settings |-> settings,
     device |-> "None",
     scanned |-> FALSE,
     last_scan |-> NoScan,
     low_battery_notified |-> FALSE,
     icon |-> IF icon_dir THEN "disconnected" ELSE "None",
     title |-> Placeholder(icon_dir),
     last_successful_read |-> 0,
     was_disconnected |-> FALSE,
     consecutive_failures |-> 0,
     disconnected_timer |-> FALSE,
     running_timers |-> 0,
     update_lock |-> FALSE,
     last_update_attempt |-> 0,
     last_access_hint_at |-> 0,
     hints |-> 0,
     aborted |-> 0,
     recovered |-> NoRecovery,
     now |-> Launch,
     threads |-> <<>>,
     updates |-> 0,
     trigger |-> NoTrigger,
     update |-> NoUpdate,
     armed |-> TRUE]

\* lines 214-224
get_icon_state(battery, charging) ==
    IF charging THEN (IF battery > 30 THEN "charging" ELSE "charging_low")
    ELSE IF battery <= 10 THEN "critical"
    ELSE IF battery <= 30 THEN "low"
    ELSE IF battery <= 60 THEN "medium"
    ELSE "full"

\* lines 226-238: without icon files nothing is set
set_icon(a, state) == IF a.icon_dir THEN [a EXCEPT !.icon = state] ELSE a

\* a backoff without the cap of MAX_FAILURE_BACKOFF
failure_backoff_uncapped(a) ==
    IF a.consecutive_failures <= 1 THEN DISCONNECTED_POLL
    ELSE DISCONNECTED_POLL * (2 ^ Min(a.consecutive_failures - 1, 4))

\* lines 390-395; 2^exponent for the exponents 0..4
Pow2(n) == IF n = 0 THEN 1 ELSE IF n = 1 THEN 2 ELSE IF n = 2 THEN 4 ELSE IF n = 3 THEN 8 ELSE 16
failure_backoff(a) ==
    IF a.consecutive_failures <= 1 THEN DISCONNECTED_POLL
    ELSE Min(DISCONNECTED_POLL * Pow2(Min(a.consecutive_failures - 1, 4)), MAX_FAILURE_BACKOFF)

\* a start that does not look at the timer it already has
start_disconnect_poll_unguarded(a) ==
    [a EXCEPT !.disconnected_timer = TRUE, !.running_timers = a.running_timers + 1]

\* lines 439-444: nothing when a timer exists; otherwise a timer is created and started
start_disconnect_poll(a) ==
    IF a.disconnected_timer THEN a
    ELSE [a EXCEPT !.disconnected_timer = TRUE, !.running_timers = a.running_timers + 1]

\* lines 446-450: nothing when no timer exists; otherwise it is stopped and forgotten
stop_disconnect_poll(a) ==
    IF a.disconnected_timer
    THEN [a EXCEPT !.disconnected_timer = FALSE, !.running_timers = a.running_timers - 1]
    ELSE a

\* a hint that does not look at the time of the last one
emit_access_remediation_always(a) ==
    [a EXCEPT !.last_access_hint_at = a.now, !.hints = a.hints + 1]

\* lines 484-518: nothing within the cooldown; otherwise the emission time is recorded (the driver
\* check and the notification are guarded by their own try / except)
emit_access_remediation_once(a) ==
    IF a.now - a.last_access_hint_at < ACCESS_HINT_COOLDOWN THEN a
    ELSE [a EXCEPT !.last_access_hint_at = a.now, !.hints = a.hints + 1]

\* lines 521-541: the first mouse of the scan, None when there is none or the scan raised
Mice(scan) == SelectSeq(scan, LAMBDA d : TypeOf[d] = "mouse")
Scan(a, w) == [a EXCEPT !.scanned = TRUE,
                        !.last_scan = [raises |-> w.scan_raises, devices |-> w.scan]]

\* a discovery that takes the first descriptor of the scan, whatever its type
find_device_any_type(a, w) ==
    IF w.scan_raises \/ w.scan = <<>> THEN [Scan(a, w) EXCEPT !.device = "None"]
    ELSE [Scan(a, w) EXCEPT !.device = Head(w.scan)]

find_device(a, w) ==
    IF w.scan_raises \/ Mice(w.scan) = <<>> THEN [Scan(a, w) EXCEPT !.device = "None"]
    ELSE [Scan(a, w) EXCEPT !.device = Head(Mice(w.scan))]

\* a title that takes the level 0 for a missing level
format_title_zero_is_missing(a, battery, charging) ==
    IF battery = 0 THEN Placeholder(a.icon_dir)
    ELSE IF a.icon_dir /\ a.settings.display_mode = "icon_only" THEN Title("", "", NoPercent)
    ELSE IF a.icon_dir \/ a.settings.display_mode = "percent_only" THEN Title("", "%", battery)
    ELSE IF a.settings.display_mode = "icon_only"
         THEN Title(IF charging THEN "charging" ELSE "battery", "", NoPercent)
    ELSE Title(IF charging THEN "charging" ELSE "battery", "%", battery)

\* lines 543-571: the title of a successful read (with icon files the percent_only mode also
\* removes the icon)
format_title(a, battery, charging) ==
    LET mode == a.settings.display_mode
        low_threshold == IF a.settings.low_battery_notify THEN a.settings.low_battery_threshold
                         ELSE 0
        glyph == IF charging THEN "charging"
                 ELSE IF low_threshold # 0 /\ battery <= low_threshold THEN "low"
                 ELSE "battery"
    IN  IF a.icon_dir
        THEN IF mode = "icon_only" THEN Title("", "", NoPercent) ELSE Title("", "%", battery)
        ELSE IF mode = "percent_only" THEN Title("", "%", battery)
        ELSE IF mode = "icon_only" THEN Title(glyph, "", NoPercent)
        ELSE Title(glyph, "%", battery)
format_icon(a) ==
    IF a.icon_dir /\ a.settings.display_mode = "percent_only" THEN [a EXCEPT !.icon = "None"]
    ELSE a

\* a failure title that shows the warning sign one failure late
failure_title_late(a) ==
    IF a.consecutive_failures > MAX_CONSECUTIVE_FAILURES
    THEN [emit_access_remediation_once(a) EXCEPT !.title = WarningSign(a.icon_dir)]
    ELSE [a EXCEPT !.title = Placeholder(a.icon_dir)]

\* lines 589-593, 604-608 and 635-639: the title of a failed update
failure_title(a) ==
    IF a.consecutive_failures >= MAX_CONSECUTIVE_FAILURES
    THEN [emit_access_remediation_once(a) EXCEPT !.title = WarningSign(a.icon_dir)]
    ELSE [a EXCEPT !.title = Placeholder(a.icon_dir)]

\* lines 584-594: no device after discovery
no_device(a) ==
    failure_title(set_icon(start_disconnect_poll(
        [a EXCEPT !.was_disconnected = TRUE,
                  !.consecutive_failures = a.consecutive_failures + 1]), "disconnected"))

\* lines 597-609: the battery read returned a negative level
read_failed(a) ==
    failure_title(set_icon(start_disconnect_poll(
        [a EXCEPT !.device = "None",
                  !.was_disconnected = TRUE,
                  !.consecutive_failures = a.consecutive_failures + 1]), "disconnected"))

\* lines 631-639: the except clause of update_battery, entered in the state the raise left
except_clause(a) ==
    failure_title(set_icon(
        [a EXCEPT !.consecutive_failures = a.consecutive_failures + 1], "disconnected"))

\* the value of a finished step of update_battery: the object, whether an error is propagating,
\* and whether a low-battery notification was delivered
Step(a, raised, fired) == [app |-> a, raised |-> raised, fired |-> fired]

\* lines 641-656: the flag is set before rumps.notification is called, and nothing guards that call
check_low_battery(a, battery, raises) ==
    IF ~a.settings.low_battery_notify THEN Step(a, FALSE, FALSE)
    ELSE IF battery <= a.settings.low_battery_threshold /\ ~a.low_battery_notified
         THEN Step([a EXCEPT !.low_battery_notified = TRUE], raises, ~raises)
    ELSE IF battery > a.settings.low_battery_threshold
         THEN Step([a EXCEPT !.low_battery_notified = FALSE], FALSE, FALSE)
    ELSE Step(a, FALSE, FALSE)

\* lines 614-629: the statements after both queries returned
read_succeeded(a, battery, charging, raises) ==
    LET shown == format_icon(set_icon(stop_disconnect_poll(
                     [a EXCEPT !.last_successful_read = a.now,
                               !.consecutive_failures = 0,
                               !.was_disconnected = FALSE]),
                     get_icon_state(battery, charging)))
        titled == [shown EXCEPT !.title = format_title(shown, battery, charging)]
    IN  check_low_battery(titled, battery, raises)

\* the outcome of update_battery: the object it leaves, the level it read (NoLevel when the
\* battery query was not reached or raised), the call that raised, whether the success path ran
\* to its end, and whether a notification was delivered
Outcome(a, level, raised, succeeded, fired) ==
    [app |-> a, level |-> level, raised |-> raised, succeeded |-> succeeded, fired |-> fired]

\* lines 573-639
update_battery(a, w) ==
    LET stale == a.last_successful_read > 0
                 /\ a.now - a.last_successful_read > STALENESS_THRESHOLD
        rescanned == IF stale THEN find_device(a, w) ELSE a
        found == IF rescanned.device = "None" THEN find_device(rescanned, w) ELSE rescanned
        checked == read_succeeded(found, w.battery, w.charging, w.raises = "rumps.notification")
    IN  IF found.device = "None" THEN Outcome(no_device(found), NoLevel, "none", FALSE, FALSE)
        ELSE IF w.raises = "get_battery_level"
             THEN Outcome(except_clause(found), NoLevel, w.raises, FALSE, FALSE)
        ELSE IF w.battery < 0 THEN Outcome(read_failed(found), w.battery, "none", FALSE, FALSE)
        ELSE IF w.raises = "get_charging_status"
             THEN Outcome(except_clause(found), w.battery, w.raises, FALSE, FALSE)
        ELSE IF checked.raised
             THEN Outcome(except_clause(checked.app), w.battery, w.raises, FALSE, FALSE)
        ELSE Outcome(checked.app, w.battery, "none", TRUE, checked.fired)

\* history: the update that has just finished, and whether a notification is due at the next
\* level at or below the threshold (none was delivered since a successful update last saw the
\* level above the threshold, and since a threshold entry of the menu was last chosen)
Finished(before, o) ==
    [o.app EXCEPT
        !.updates = before.updates + 1,
        !.trigger = NoTrigger,
        !.update = [level |-> o.level, raised |-> o.raised, succeeded |-> o.succeeded,
                    fired |-> o.fired, scanned |-> o.app.scanned],
        !.scanned = FALSE,
        !.armed = IF o.fired THEN FALSE
                  ELSE IF o.succeeded /\ o.level > before.settings.low_battery_threshold THEN TRUE
                  ELSE before.armed]

\* every variable of the protocol layer
TrayFrame ==
    UNCHANGED <<selected_device, hid, pc, command_desc, preferred_path, interfaces, i, attempt,
                dev, exc, response, attempted_ifaces, io_errors, open_failed_count, success,
                result, opens, open_handles, tries, caller, codec>>

\* lines 207-209: __init__ ends with find_device() and update_battery()
Startup ==
    /\ app.pc = "init"
    /\ \E w \in WorldsOf(app) :
          app' = [Finished(app, update_battery(find_device(app, w), w)) EXCEPT !.pc = "running"]
    /\ TrayFrame

\* the updates of one behaviour; where access is denied, those that lead to the first hint
\* come on top
Budget(a) ==
    IF a.environment = "denied" THEN MaxUpdates + MAX_CONSECUTIVE_FAILURES - 1
    ELSE IF a.environment \in {"trouble", "good"} THEN MaxUpdates + MAX_CONSECUTIVE_FAILURES + 1
    ELSE MaxUpdates

\* a handler may start a thread while the run has updates left
Running == app.pc = "running"
MayTrigger ==
    /\ Running
    /\ Len(app.threads) < MaxThreads
    /\ app.updates + app.aborted + Len(app.threads) < Budget(app)

Thread(target, include_scan) == [target |-> target, include_scan |-> include_scan]
Triggered(a, by, outcome) == [a EXCEPT !.trigger = [by |-> by, outcome |-> outcome]]

\* a dispatch that does not look at the update lock
schedule_update_unlocked(a, include_scan, by) ==
    Triggered([a EXCEPT !.update_lock = TRUE, !.last_update_attempt = a.now,
                        !.threads = Append(a.threads, Thread("worker", include_scan))],
              by, "started")

\* lines 397-417, up to the start of the thread: skipped when the lock is held
schedule_update(a, include_scan, by) ==
    IF a.update_lock THEN Triggered(a, by, "skipped")
    ELSE Triggered([a EXCEPT !.update_lock = TRUE,
                             !.last_update_attempt = a.now,
                             !.threads = Append(a.threads, Thread("worker", include_scan))],
                   by, "started")

\* the calls of a thread's body out of which an error can come: none where find_device and
\* update_battery handle every error themselves; otherwise the except clause of either can
\* itself raise (find_device at its title assignment after self.device = None, update_battery
\* at _set_icon after the failure was counted, get_battery_level having raised)
Escapes(a) ==
    IF a.environment = "raising" THEN {"none", "find_device", "update_battery"} ELSE {"none"}

\* history: a body ended by an error that `except Exception` caught and logged
Aborted(a) == [a EXCEPT !.aborted = a.aborted + 1, !.trigger = NoTrigger, !.scanned = FALSE]

\* a body that leaves the lock as it is
ReleaseForgotten(a) == a

\* lines 413-414 and 435-436: `finally` releases the lock
Release(a) == [a EXCEPT !.update_lock = FALSE]

\* lines 406-414 and 429-436: the body of the thread; the lock is released in `finally`
WorkerRun ==
    /\ Running
    /\ \E k \in 1..Len(app.threads) : \E w \in WorldsOf(app) : \E escapes \in Escapes(app) :
          LET thread == app.threads[k]
              calls_find == thread.include_scan \/ app.device = "None"
          IN  \E scanned \in {IF calls_find THEN find_device(app, w) ELSE app} :
                 /\ escapes = "find_device" => calls_find
                 /\ escapes = "update_battery" => scanned.device # "None"
                 /\ \E outcome \in {update_battery(scanned, w)} :
                    \E done \in {CASE escapes = "none" -> Finished(app, outcome)
                                  [] escapes = "find_device" ->
                                        Aborted([scanned EXCEPT !.device = "None"])
                                  [] escapes = "update_battery" ->
                                        Aborted([scanned EXCEPT !.consecutive_failures = @ + 1])} :
                       app' = [Release(done) EXCEPT
                                 !.threads = SubSeq(app.threads, 1, k - 1)
                                             \o SubSeq(app.threads, k + 1, Len(app.threads))]
    /\ TrayFrame

\* lines 425-431: the wake timer's thread takes the lock or gives up
wake_refresh ==
    /\ MayTrigger
    /\ app' = IF app.update_lock THEN Triggered(app, "_wake_refresh", "skipped")
              ELSE Triggered([app EXCEPT !.update_lock = TRUE,
                                         !.last_update_attempt = app.now,
                                         !.threads = Append(app.threads,
                                                            Thread("_wake_refresh", TRUE))],
                             "_wake_refresh", "started")
    /\ TrayFrame

\* lines 658-661
refresh ==
    /\ MayTrigger
    /\ app' = schedule_update(app, TRUE, "refresh")
    /\ TrayFrame

\* lines 452-458: the fast timer exists while a disconnect poll is started
check_reconnect ==
    /\ MayTrigger
    /\ app.disconnected_timer
    /\ app' = IF app.consecutive_failures > 1
                 /\ app.now - app.last_update_attempt < failure_backoff(app)
              THEN Triggered(app, "_check_reconnect", "declined")
              ELSE schedule_update(app, TRUE, "_check_reconnect")
    /\ TrayFrame

\* a poll that looks at the last successful read whatever the failure count
poll_due_ignores_failures(a) ==
    a.last_successful_read = 0
    \/ a.now - a.last_successful_read >= a.settings.poll_interval

\* a poll that gives up for good once an update has failed
poll_due_never_after_failure(a) == a.consecutive_failures = 0 /\ poll_due_ignores_failures(a)

\* lines 666-675: the condition under which poll() goes on to _schedule_update
poll_due(a) ==
    IF a.consecutive_failures > 0
    THEN LET backoff == failure_backoff(a)
             since_attempt == IF a.last_update_attempt > 0 THEN a.now - a.last_update_attempt
                              ELSE backoff + 1
         IN  ~(since_attempt < backoff)
    ELSE LET elapsed == IF a.last_successful_read > 0 THEN a.now - a.last_successful_read
                        ELSE a.settings.poll_interval + 1
         IN  ~(elapsed < a.settings.poll_interval)

\* lines 663-676
poll ==
    /\ MayTrigger
    /\ app' = IF poll_due(app) THEN schedule_update(app, FALSE, "poll")
              ELSE Triggered(app, "poll", "declined")
    /\ TrayFrame

\* lines 282-287
poll_callback ==
    /\ Running
    /\ \E seconds \in POLL_CHOICES :
          app' = [app EXCEPT !.settings.poll_interval = seconds, !.trigger = NoTrigger]
    /\ TrayFrame

\* lines 289-300; choosing an entry re-arms the notification
threshold_callback ==
    /\ Running
    /\ \E threshold \in THRESHOLD_CHOICES :
          app' = [app EXCEPT
                     !.settings.low_battery_notify = (threshold # 0),
                     !.settings.low_battery_threshold =
                         IF threshold = 0 THEN @ ELSE threshold,
                     !.low_battery_notified = FALSE,
                     !.armed = TRUE,
                     !.trigger = NoTrigger]
    /\ TrayFrame

\* lines 302-308
display_callback ==
    /\ MayTrigger
    /\ \E mode \in DISPLAY_CHOICES :
          app' = schedule_update([app EXCEPT !.settings.display_mode = mode], FALSE,
                                 "display_mode")
    /\ TrayFrame

\* the wall clock advances
Elapsed == app.now - Launch
TicksSoFar == IF Elapsed >= Sleep THEN 1 + ((Elapsed - Sleep) \div Nap) ELSE Elapsed \div Nap
Tick ==
    /\ Running
    /\ TicksSoFar < MaxTicks
    /\ \E delay \in Delays :
          /\ delay = Sleep => Elapsed < Sleep
          /\ app' = [app EXCEPT !.now = app.now + delay, !.trigger = NoTrigger]
    /\ TrayFrame

\* the protocol layer at rest below the tray
InitBelow ==
    /\ selected_device = Device(<<>>, NoPath)
    /\ hid = [raises |-> {}, responses |-> {}]
    /\ InitFrame
    /\ codec = NoCodec

\* titles and failure counts: either kind of icon, every display mode, every outcome of an update
InitTray ==
    /\ InitBelow
    /\ \E icon_dir \in BOOLEAN, mode \in DISPLAY_CHOICES :
          app = Constructed_App(icon_dir, [DEFAULTS EXCEPT !.display_mode = mode], "any")

NextTray ==
    \/ Startup
    \/ refresh
    \/ display_callback
    \/ WorkerRun

SpecTray == InitTray /\ [][NextTray]_vars

\* notifications: every saved alert setting, every outcome of an update
InitNotify ==
    /\ InitBelow
    /\ \E notify \in BOOLEAN, threshold \in THRESHOLD_CHOICES \ {0} :
          app = Constructed_App(TRUE, [DEFAULTS EXCEPT !.low_battery_notify = notify,
                                                       !.low_battery_threshold = threshold],
                                "any")

NextNotify ==
    \/ Startup
    \/ refresh
    \/ threshold_callback
    \/ WorkerRun

SpecNotify == InitNotify /\ [][NextNotify]_vars

\* scheduling: either poll interval, the plain outcomes of an update
InitSched ==
    /\ InitBelow
    /\ \E seconds \in {PollTimer, DEFAULTS.poll_interval} :
          app = Constructed_App(TRUE, [DEFAULTS EXCEPT !.poll_interval = seconds], "plain")

NextSched ==
    \/ Startup
    \/ Tick
    \/ poll
    \/ refresh
    \/ check_reconnect
    \/ wake_refresh
    \/ display_callback
    \/ poll_callback
    \/ WorkerRun

SpecSched == InitSched /\ [][NextSched]_vars

(***************************************************************************)
(* Properties of the tray.  A step that finishes an update is one that     *)
(* adds 1 to app.updates; app.update then says what that update read and   *)
(* did.  A step of a handler that asks for an update leaves the handler's  *)
(* name in app.trigger.                                                    *)
(***************************************************************************)
UpdateFinishes == app'.updates = app.updates + 1

\* C26: every completed update_battery either succeeds (a level >= 0 was read) and sets
\* consecutive_failures to 0, or fails (no mouse, level -1, or an error raised inside the update)
\* and adds exactly 1 to consecutive_failures.
C26_UpdateResetsOrAddsOne ==
    [][UpdateFinishes =>
          LET failed == app'.update.level < 0 \/ app'.update.raised # "none"
          IN  IF failed THEN app'.consecutive_failures = app.consecutive_failures + 1
              ELSE app'.consecutive_failures = 0]_vars

\* C27: after a failed update the title is the warning sign exactly when consecutive_failures has
\* reached MAX_CONSECUTIVE_FAILURES and the placeholder otherwise; after a successful update it is
\* neither, and every mode that shows a percentage shows the level read, 0 included.
C27_TitleAfterUpdate ==
    [][UpdateFinishes =>
          IF app'.update.succeeded
          THEN /\ app'.title.text \notin {"--", "warning"}
               /\ app.settings.display_mode # "icon_only"
                     => app'.title.text = "%" /\ app'.title.percent = app'.update.level
          ELSE app'.title.text = IF app'.consecutive_failures >= MAX_CONSECUTIVE_FAILURES
                                 THEN "warning" ELSE "--"]_vars

C27_Witness ==
    /\ app.pc = "running"
    /\ ~app.update.succeeded
    /\ app.consecutive_failures = MAX_CONSECUTIVE_FAILURES
    /\ app.title.text = "warning"

\* C28: a successful update delivers the low-battery notification exactly when notifications are
\* enabled, the level is at or below the threshold, and none was delivered since the level was
\* last above the threshold or a threshold was last chosen.
C28_NotifiesOncePerCrossing ==
    [][(UpdateFinishes /\ app'.update.succeeded) =>
          (app'.update.fired <=>
              /\ app.settings.low_battery_notify
              /\ app'.update.level <= app.settings.low_battery_threshold
              /\ app.armed)]_vars

\* C29: at most one update is in progress at any time, and it is the one that holds the update
\* lock; a trigger that arrives while the lock is held starts no thread and leaves none waiting.
Triggers == {"poll", "refresh", "_check_reconnect", "display_mode", "_wake_refresh"}
C29_OneUpdateAtATime ==
    [][/\ Len(app'.threads) = (IF app'.update_lock THEN 1 ELSE 0)
       /\ (app.pc = "running" /\ app.update_lock /\ app'.trigger.by \in Triggers)
             => /\ app'.trigger.outcome \in {"skipped", "declined"}
                /\ app'.threads = app.threads
       /\ Len(app'.threads) > Len(app.threads)
             => app'.trigger.by \in Triggers /\ app'.trigger.outcome = "started"]_vars

C29_Witness ==
    /\ app.pc = "running"
    /\ app.trigger = [by |-> "_wake_refresh", outcome |-> "skipped"]
    /\ Len(app.threads) = 1
    /\ app.threads[1].target = "worker"

\* C30: poll() goes on to schedule an update exactly when consecutive_failures = 0 and no read
\* has succeeded yet or the last one is at least a poll interval old, or consecutive_failures > 0
\* and no attempt is recorded or the last one is at least the failure backoff old.
SinceRead == app.now - app.last_successful_read
SinceAttempt == app.now - app.last_update_attempt
C30_PollCondition ==
    [][app'.trigger.by = "poll" =>
          (app'.trigger.outcome # "declined" <=>
              \/ /\ app.consecutive_failures = 0
                 /\ app.last_successful_read = 0 \/ SinceRead >= app.settings.poll_interval
              \/ /\ app.consecutive_failures > 0
                 /\ app.last_update_attempt = 0 \/ SinceAttempt >= failure_backoff(app))]_vars

\* a poll during a failure streak that went ahead although the last read is younger than the
\* poll interval
C30_Witness ==
    /\ app.trigger = [by |-> "poll", outcome |-> "started"]
    /\ app.consecutive_failures > 0
    /\ app.last_successful_read > 0
    /\ SinceRead < app.settings.poll_interval

\* C31: at most one fast reconnect timer runs at any time, and it is the one the application
\* refers to; an update that fails for want of a mouse or of a battery level leaves the timer
\* running without starting a second one, and every successful update leaves none running.
C31_OneReconnectTimer ==
    [][/\ app'.running_timers = (IF app'.disconnected_timer THEN 1 ELSE 0)
       /\ UpdateFinishes =>
             /\ (app'.update.level < 0 /\ app'.update.raised = "none")
                   => /\ app'.disconnected_timer
                      /\ app.disconnected_timer => app'.running_timers = app.running_timers
             /\ app'.update.succeeded
                   => /\ ~app'.disconnected_timer
                      /\ ~app.disconnected_timer => app'.running_timers = app.running_timers]_vars

\* a second failure in a row finds the timer of the first one running
C31_Witness ==
    /\ app.pc = "running"
    /\ app.updates >= 2
    /\ app.consecutive_failures = 2
    /\ app.update.level < 0
    /\ app.update.raised = "none"
    /\ app.disconnected_timer
    /\ app.running_timers = 1

\* C32: the selected device is none or a descriptor of type mouse, namely the first mouse of the
\* scan that selected it (so none after a scan that raised or held no mouse); a battery read of
\* -1 clears it, and an update that starts without a device runs discovery.
FirstMouse(devices) ==
    devices[CHOOSE k \in 1..Len(devices) :
               /\ TypeOf[devices[k]] = "mouse"
               /\ \A j \in 1..(k - 1) : TypeOf[devices[j]] # "mouse"]
C32_DeviceIsFirstMouse ==
    [][/\ app'.device # "None"
             => /\ TypeOf[app'.device] = "mouse"
                /\ ~app'.last_scan.raises
                /\ app'.device = FirstMouse(app'.last_scan.devices)
       /\ UpdateFinishes
             => /\ app'.update.level = -1 => app'.device = "None"
                /\ app.device = "None" => app'.update.scanned]_vars

\* after an earlier update, discovery ran again and took the first of two mice behind a keyboard
C32_Witness ==
    /\ app.pc = "running"
    /\ app.updates >= 2
    /\ app.update.scanned
    /\ app.update.succeeded
    /\ app.last_scan.devices = <<"keyboard_device", "mouse_device", "mouse_device_2">>
    /\ app.device = "mouse_device"


(***************************************************************************)
(* The permission hint's test on the descriptor's diagnostic fields.       *)
(***************************************************************************)
last_failure_is_full_open_failure(target) ==
    IF DOMAIN target = {} THEN FALSE
    ELSE IF Get(target, "_diag_last_ok", TRUE) THEN FALSE
    ELSE LET attempted == Get(target, "_diag_last_attempted_interfaces", <<>>)
             count == Get(target, "_diag_last_open_failed_count", 0)
         IN  Len(attempted) > 0 /\ count >= Len(attempted)

\* the attempts of the exchange in which open_path returned
OpenedTries ==
    {k \in 1..Len(tries) :
        \/ tries[k].outcome \in {"valid", "invalid"}
        \/ Failed(tries[k]) /\ tries[k].site \notin {"device", "open"}}

(***************************************************************************)
(* C33: after an exchange, _last_failure_is_full_open_failure is true of   *)
(* the descriptor only when the exchange failed and no attempted interface *)
(* was opened during it.                                                   *)
(***************************************************************************)
C33_FullOpenFailureOnly ==
    (pc = "done" /\ last_failure_is_full_open_failure(selected_device)) =>
       /\ result = <<>>
       /\ OpenedTries = {}


(***************************************************************************)
(* Settings (settings.py): the stored settings and the settings file.  A   *)
(* value is a JSON value with its Python type; the file is missing, not    *)
(* JSON, JSON that is no object, or an object.                             *)
(***************************************************************************)
IntVal(n) == [type |-> "int", n |-> n]
BoolVal(b) == [type |-> "bool", b |-> b]
StrVal(s) == [type |-> "str", s |-> s]
NoneVal == [type |-> "NoneType"]

\* isinstance(val, expected_type): bool is a subclass of int
isinstance(val, expected_type) ==
    \/ val.type = expected_type
    \/ expected_type = "int" /\ val.type = "bool"

SETTING_TYPES ==
    [poll_interval |-> "int", low_battery_threshold |-> "int", low_battery_notify |-> "bool",
     display_mode |-> "str", launch_at_login |-> "bool"]

VALID_DISPLAY_MODES == {StrVal("icon_percent"), StrVal("percent_only"), StrVal("icon_only")}

\* dict(DEFAULTS)
DefaultData ==
    [poll_interval |-> IntVal(DEFAULTS.poll_interval),
     low_battery_threshold |-> IntVal(DEFAULTS.low_battery_threshold),
     low_battery_notify |-> BoolVal(DEFAULTS.low_battery_notify),
     display_mode |-> StrVal(DEFAULTS.display_mode),
     launch_at_login |-> BoolVal(FALSE)]

SettingKeys == DOMAIN SETTING_TYPES
AnyKeys == SettingKeys \cup {"nonexistent_key"}
SettingValues ==
    {IntVal(60), IntVal(1), BoolVal(TRUE), BoolVal(FALSE), StrVal("icon_only"), StrVal("big_icons"), NoneVal}

MaxOps == 3

Missing == [kind |-> "missing"]
Corrupt == [kind |-> "corrupt"]
NotADict == [kind |-> "list"]
Dict(saved) == [kind |-> "dict", saved |-> saved]

\* the file of test_load_invalid_types_falls_back_to_defaults
WrongTypesFile ==
    Dict([key \in {"poll_interval", "display_mode", "low_battery_notify"} |->
            CASE key = "poll_interval" -> StrVal("not_int")
              [] key = "display_mode" -> StrVal("bad_mode")
              [] key = "low_battery_notify" -> IntVal(1)])

\* the files a run can start from: one key saved with any value, and the files of the tests
Files ==
    {Missing, Corrupt, NotADict, WrongTypesFile}
       \cup {Dict([k \in {key} |-> val]) : key \in AnyKeys, val \in SettingValues}

\* lines 49-56: may load store this saved value under this key?
load_any_mode(key, val) == isinstance(val, SETTING_TYPES[key])

Loadable(key, val) ==
    /\ isinstance(val, SETTING_TYPES[key])
    /\ ~(key = "display_mode" /\ val \notin VALID_DISPLAY_MODES)

\* lines 37-63, on the stored settings
load(data, file) ==
    IF file.kind # "dict" THEN data
    ELSE [key \in SettingKeys |->
            IF key \in DOMAIN file.saved /\ Loadable(key, file.saved[key])
            THEN file.saved[key]
            ELSE data[key]]

\* lines 89-96: the error set raises, "none" when it stores the value
SetError(key, value) ==
    IF key \notin SettingKeys THEN "ValueError"
    ELSE IF SETTING_TYPES[key] = "bool" /\ isinstance(value, "int") /\ ~isinstance(value, "bool")
    THEN "TypeError"
    ELSE IF ~isinstance(value, SETTING_TYPES[key]) THEN "TypeError"
    ELSE IF key = "display_mode" /\ value \notin VALID_DISPLAY_MODES THEN "ValueError"
    ELSE "none"

NoOp == [fn |-> "none"]

\* Settings.__init__ before its call of load
Constructed_Settings(file) ==
    [pc |-> "settings", data |-> DefaultData, file |-> file, ops |-> 0, op |-> NoOp]

SettingsLoad ==
    /\ app.pc = "settings"
    /\ app.ops < MaxOps
    /\ app' = [app EXCEPT !.data = load(app.data, app.file),
                          !.ops = @ + 1,
                          !.op = [fn |-> "load"]]
    /\ TrayFrame

\* set, with its save: the file is rewritten, or left as it was when writing fails
SettingsSet ==
    /\ app.pc = "settings"
    /\ app.ops \in 1..(MaxOps - 1)
    /\ \E key \in AnyKeys, value \in SettingValues, written \in BOOLEAN :
          LET error == SetError(key, value)
              data == IF error = "none" THEN [app.data EXCEPT ![key] = value] ELSE app.data
          IN  app' = [app EXCEPT
                        !.data = data,
                        !.file = IF error = "none" /\ written THEN Dict(data) ELSE @,
                        !.ops = @ + 1,
                        !.op = [fn |-> "set", key |-> key, value |-> value, error |-> error]]
    /\ TrayFrame

InitSettings ==
    /\ InitBelow
    /\ \E file \in Files : app = Constructed_Settings(file)

NextSettings ==
    \/ SettingsLoad
    \/ SettingsSet

SpecSettings == InitSettings /\ [][NextSettings]_vars

\* every stored setting is an instance of its declared type, the display mode is a valid one
SettingsValid(data) ==
    /\ DOMAIN data = SettingKeys
    /\ \A key \in SettingKeys : isinstance(data[key], SETTING_TYPES[key])
    /\ data.display_mode \in VALID_DISPLAY_MODES

(***************************************************************************)
(* C34: after any sequence of load and set every stored setting is an      *)
(* instance of its declared type (isinstance, so a bool passes for an int  *)
(* key, as in the code) and display_mode is one of the three modes.  load  *)
(* takes from the file exactly the saved values of the right type and a    *)
(* valid mode and leaves every other key as it was (the default, in the    *)
(* load of the constructor); set with an unknown key, a wrong-typed value  *)
(* or an invalid mode raises and leaves the stored settings and the file   *)
(* unchanged.                                                              *)
(***************************************************************************)
C34_SettingsStayValid ==
    [][app'.pc = "settings" =>
          /\ SettingsValid(app'.data)
          /\ app'.op.fn = "load" =>
                \A key \in SettingKeys :
                   LET saved == IF app.file.kind = "dict" THEN app.file.saved ELSE <<>>
                       taken == /\ key \in DOMAIN saved
                                /\ isinstance(saved[key], SETTING_TYPES[key])
                                /\ key = "display_mode" => saved[key] \in VALID_DISPLAY_MODES
                   IN  /\ taken => app'.data[key] = saved[key]
                       /\ ~taken => app'.data[key] = app.data[key]
                       /\ (~taken /\ app.ops = 0) => app'.data[key] = DefaultData[key]
          /\ app'.op.fn = "set" =>
                LET key == app'.op.key
                    value == app'.op.value
                    bad == \/ key \notin SettingKeys
                           \/ ~isinstance(value, SETTING_TYPES[key])
                           \/ key = "display_mode" /\ value \notin VALID_DISPLAY_MODES
                IN  /\ bad => /\ app'.op.error \in {"TypeError", "ValueError"}
                              /\ app'.data = app.data
                              /\ app'.file = app.file
                    /\ ~bad => /\ app'.op.error = "none"
                               /\ app'.data = [app.data EXCEPT ![key] = value]]_vars

\* a valid mode was loaded from the file, then an invalid mode and a wrong-typed value refused
C34_Witness ==
    /\ app.pc = "settings"
    /\ app.ops = MaxOps
    /\ app.data.display_mode = StrVal("icon_only")
    /\ app.file = Dict([k \in {"display_mode"} |-> StrVal("icon_only")])
    /\ app.op.fn = "set"
    /\ app.op.key = "low_battery_notify"
    /\ app.op.value = IntVal(1)
    /\ app.op.error = "TypeError"


(***************************************************************************)
(* _failure_backoff on its own: applied to a failure count and to the next *)
(* count.                                                                  *)
(***************************************************************************)
MaxFailures == 60

InitBackoff ==
    /\ selected_device = Device(<<>>, NoPath)
    /\ hid = [raises |-> {}, responses |-> {}]
    /\ InitFrame
    /\ app = NoApp
    /\ \E n \in 0..MaxFailures :
          codec = [fn |-> "_failure_backoff", consecutive_failures |-> n, done |-> FALSE,
                   value |-> 0, next_value |-> 0]

FailureBackoff ==
    /\ codec.fn = "_failure_backoff"
    /\ ~codec.done
    /\ codec' = [codec EXCEPT
                   !.done = TRUE,
                   !.value = failure_backoff([consecutive_failures |-> codec.consecutive_failures]),
                   !.next_value =
                      failure_backoff([consecutive_failures |-> codec.consecutive_failures + 1])]
    /\ Frame

NextBackoff ==
    \/ FailureBackoff

SpecBackoff == InitBackoff /\ [][NextBackoff]_vars

(***************************************************************************)
(* C35: _failure_backoff is 30 s for a failure count of at most 1, then    *)
(* 60, 120 and 240 s for 2, 3 and 4 failures and 300 s from 5 failures on; *)
(* it never decreases when the count grows by one and lies in 30..300.     *)
(***************************************************************************)
C35_BackoffTable ==
    (codec.fn = "_failure_backoff" /\ codec.done) =>
       LET n == codec.consecutive_failures
       IN  /\ codec.value = (CASE n <= 1 -> 30
                               [] n = 2 -> 60
                               [] n = 3 -> 120
                               [] n = 4 -> 240
                               [] OTHER -> 300)
           /\ codec.value <= codec.next_value
           /\ codec.value \in 30..300

\* the cap is in force: six failures, 300 s, and 300 s again for seven
C35_Witness ==
    /\ codec.fn = "_failure_backoff"
    /\ codec.done
    /\ codec.consecutive_failures = 6
    /\ codec.value = 300
    /\ codec.next_value = 300


(***************************************************************************)
(* The permission hint over time: every update can fail, the user asks for *)
(* updates from the menu, and between them the clock advances to just     *)
(* before the end of a cooldown's length, then to its end.                 *)
(***************************************************************************)
MaxWaits == 2
LongWait == ACCESS_HINT_COOLDOWN - Nap

Wait ==
    /\ Running
    /\ Elapsed < MaxWaits * ACCESS_HINT_COOLDOWN
    /\ LET delay == IF Elapsed % ACCESS_HINT_COOLDOWN = 0 THEN LongWait ELSE Nap
       IN  app' = [app EXCEPT !.now = app.now + delay, !.trigger = NoTrigger]
    /\ TrayFrame

InitHint ==
    /\ InitBelow
    /\ app = Constructed_App(TRUE, DEFAULTS, "denied")

NextHint ==
    \/ Startup
    \/ Wait
    \/ refresh
    \/ WorkerRun

SpecHint == InitHint /\ [][NextHint]_vars

\* the step emits the hint
Emitted == app'.hints = app.hints + 1

\* the step is an update that ends in a call of _emit_access_remediation_once
EmitCalled ==
    /\ UpdateFinishes
    /\ ~app'.update.succeeded
    /\ app'.consecutive_failures >= MAX_CONSECUTIVE_FAILURES

(***************************************************************************)
(* C36: the hint is emitted at most once in any window of                  *)
(* ACCESS_HINT_COOLDOWN seconds.  A step emits at most one hint and        *)
(* records its time; a hint after the first comes at least 900 s after the *)
(* one before; a call of _emit_access_remediation_once less than 900 s     *)
(* after the last emission emits nothing and leaves the recorded time as   *)
(* it was, and so does every step that emits nothing.                      *)
(***************************************************************************)
C36_HintOncePerCooldown ==
    [][app'.pc = "running" =>
          /\ app'.hints \in {app.hints, app.hints + 1}
          /\ Emitted => /\ EmitCalled
                        /\ app'.last_access_hint_at = app'.now
                        /\ app.hints > 0 =>
                              app'.now - app.last_access_hint_at >= ACCESS_HINT_COOLDOWN
          /\ ~Emitted => app'.last_access_hint_at = app.last_access_hint_at
          /\ (EmitCalled /\ app.hints > 0
                 /\ app'.now - app.last_access_hint_at < ACCESS_HINT_COOLDOWN) =>
                /\ ~Emitted
                /\ app'.last_access_hint_at = app.last_access_hint_at]_vars

\* a second hint, after a failed update inside the cooldown of the first one left it alone
C36_Witness ==
    /\ app.pc = "running"
    /\ app.hints = 2
    /\ app.updates = 5
    /\ app.consecutive_failures = 5
    /\ app.last_access_hint_at = app.now
    /\ app.now >= Launch + ACCESS_HINT_COOLDOWN


(***************************************************************************)
(* The update lock where a thread's body can end in an error: updates are  *)
(* asked for from the menu and by the wake timer.                          *)
(***************************************************************************)
InitLock ==
    /\ InitBelow
    /\ app = Constructed_App(TRUE, DEFAULTS, "raising")

NextLock ==
    \/ Startup
    \/ refresh
    \/ wake_refresh
    \/ WorkerRun

SpecLock == InitLock /\ [][NextLock]_vars

\* the step ends the body of a background update or of a wake refresh
BodyEnds == Len(app'.threads) < Len(app.threads)

(***************************************************************************)
(* C37: the update lock is released whenever a background update or a wake *)
(* refresh finishes, also when find_device or update_battery raised; the   *)
(* lock is held exactly while the body of an update is running, and a      *)
(* trigger is skipped only while one is.                                   *)
(***************************************************************************)
C37_LockReleased ==
    [][app'.pc = "running" =>
          /\ BodyEnds => ~app'.update_lock
          /\ app'.update_lock <=> Len(app'.threads) = 1
          /\ app'.trigger.outcome = "skipped" =>
                /\ app.update_lock
                /\ Len(app.threads) = 1
          /\ (app'.trigger.by \in {"refresh", "_wake_refresh"} /\ Len(app.threads) = 0) =>
                /\ app'.trigger.outcome = "started"
                /\ app'.update_lock]_vars

\* after a body ended in an error, a trigger from the menu has started an update
C37_Witness ==
    /\ app.pc = "running"
    /\ app.aborted = 1
    /\ app.updates = 1
    /\ app.update_lock
    /\ Len(app.threads) = 1
    /\ app.threads[1].target = "worker"
    /\ app.trigger.by = "refresh"
    /\ app.trigger.outcome = "started"


(***************************************************************************)
(* Recovery.  Updates fail or succeed while the user asks for them from    *)
(* the menu; at some point the mouse is back for good (Recover).  The 60 s *)
(* poll timer fires again and again (PollTick: the clock moves on by the   *)
(* timer's period and poll() runs), and a started thread runs.             *)
(***************************************************************************)
MaxPolls == 7

\* the run has room left for the wait of the longest backoff and for two updates
Recover ==
    /\ Running
    /\ app.environment = "trouble"
    /\ Elapsed + MAX_FAILURE_BACKOFF + PollTimer <= MaxPolls * PollTimer
    /\ app.updates + app.aborted + Len(app.threads) + 2 <= Budget(app)
    /\ app' = [app EXCEPT !.environment = "good",
                          !.recovered = [updates |-> app.updates,
                                         failures |-> app.consecutive_failures],
                          !.trigger = NoTrigger]
    /\ TrayFrame

\* line 663: the timer of poll() fires PollTimer seconds after it fired last; the thread of an
\* update, which sleeps for fractions of a second, has ended by then
PollTick ==
    /\ MayTrigger
    /\ Len(app.threads) = 0
    /\ Elapsed < MaxPolls * PollTimer
    /\ LET a == [app EXCEPT !.now = app.now + PollTimer]
       IN  app' = IF poll_due(a) THEN schedule_update(a, FALSE, "poll")
                  ELSE Triggered(a, "poll", "declined")
    /\ TrayFrame

InitLive ==
    /\ InitBelow
    /\ app = Constructed_App(TRUE, DEFAULTS, "trouble")

NextLive ==
    \/ Startup
    \/ refresh
    \/ Recover
    \/ PollTick
    \/ WorkerRun

\* rumps fires the timer of poll() every 60 s; the operating system runs a started thread
SpecLive == InitLive /\ [][NextLive]_vars /\ WF_vars(PollTick) /\ WF_vars(WorkerRun)

(***************************************************************************)
(* C38: once the scan always returns a mouse and its battery reads always  *)
(* succeed, with the poll timer firing, an update is eventually run and    *)
(* the tray reaches consecutive_failures = 0 with the reconnect timer      *)
(* stopped, whatever the number of failures before.                        *)
(***************************************************************************)
C38_EventuallyRecovers ==
    (app.pc = "running" /\ app.environment = "good")
       ~> (/\ app.updates > app.recovered.updates
           /\ app.consecutive_failures = 0
           /\ ~app.disconnected_timer)

\* recovered from five failures in a row, the longest backoff waited for
C38_Witness ==
    /\ app.pc = "running"
    /\ app.environment = "good"
    /\ app.recovered.failures = 5
    /\ app.updates = app.recovered.updates + 1
    /\ app.update.succeeded
    /\ app.consecutive_failures = 0
    /\ ~app.disconnected_timer
    /\ app.now - app.last_update_attempt = 0
    /\ Elapsed >= MAX_FAILURE_BACKOFF


(***************************************************************************)
(* C39: an exchange that returns none leaves the descriptor's preferred    *)
(* path as it was when the exchange began, and no step of any exchange     *)
(* changes the descriptor's interface list or the order of its entries.    *)
(***************************************************************************)
C39_DescriptorKept ==
    [][/\ selected_device'.interfaces = selected_device.interfaces
       /\ (pc' = "done" /\ result' = <<>>) =>
             /\ Get(selected_device', "preferred_interface_path", NoPath) = preferred_path'
             /\ Get(selected_device', "preferred_interface_path", NoPath)
                   = Get(selected_device, "preferred_interface_path", NoPath)]_vars

\* a second exchange returned none after the first had cached a path; its attempt order
\* differs from the order of the descriptor's list
C39_Witness ==
    /\ pc = "done"
    /\ caller.calls = 1
    /\ result = <<>>
    /\ Len(tries) >= 2
    /\ Get(selected_device, "preferred_interface_path", NoPath) = 2
    /\ Len(interfaces) = 2
    /\ interfaces # selected_device.interfaces

====
